---- MODULE Spec2Model ----
(***************************************************************************)
(* Alert-triage service of AI_SOC: the classifier client (ml_client.py),   *)
(* the generative-model gateway (OllamaClient, llm_client.py) and the HTTP *)
(* endpoints /analyze and /batch (main.py).  The pure functions            *)
(* _extract_network_features and _parse_llm_response are also exercised   *)
(* on their own, over a wider range of inputs than the endpoints draw.    *)
(*                                                                         *)
(* Python values are records: None is PyNone, a list is PyList(items), an  *)
(* exception object is Exc(cls, msg).  A call's outcome is Return(v) or    *)
(* Raise(exc).  A float is a fraction [num, den].                          *)
(***************************************************************************)
EXTENDS Integers, Sequences, FiniteSets, TLC

VARIABLES
    ml_enabled,     \* MLInferenceClient.enabled / settings.ml_enabled
    endpoint,       \* the request being handled: "idle", "analyze" or "batch"
    alerts,         \* the request's input alerts (one for /analyze)
    tasks,          \* tasks[i]: the llm_client.analyze_alert(alerts[i]) coroutine
    response,       \* the HTTP response of the last completed request
    REQUEST_COUNT,  \* prometheus counter triage_requests_total, by status label
    completed,      \* number of requests answered so far
    arg_alert,      \* the alert a function under study is called with
    ret_features,   \* outcome of _extract_network_features(arg_alert)
    arg_llm_output, \* the answer text _parse_llm_response is called with
    arg_model,      \* the model name _parse_llm_response is called with
    ret_parsed,     \* value of _parse_llm_response(arg_alert, arg_llm_output, arg_model)
    health,         \* a GET /health request, or a direct call of check_health
    rag,            \* a call of VectorStore.query (rag-service)
    webhook,        \* a POST /webhook request (wazuh-integration)
    wazuh,          \* the WazuhClient and the coroutines using it
    fetch,          \* a GET /alerts request (wazuh-integration)
    kb,             \* the vector store's collections and the calls that fill them
    verifier        \* a run of the deployment verifier

serviceVars == <<ml_enabled, endpoint, alerts, tasks, response, REQUEST_COUNT, completed>>
unitVars == <<arg_alert, ret_features, arg_llm_output, arg_model, ret_parsed>>
toolVars == <<wazuh, fetch, kb, verifier>>
auxVars == <<health, rag, webhook, toolVars>>
exceptHealth == <<serviceVars, unitVars, rag, webhook, toolVars>>
exceptRag == <<serviceVars, unitVars, health, webhook, toolVars>>
exceptWebhook == <<serviceVars, unitVars, health, rag, toolVars>>
exceptWazuh == <<serviceVars, unitVars, health, rag, webhook, fetch, kb, verifier>>
exceptFetch == <<serviceVars, unitVars, health, rag, webhook, wazuh, kb, verifier>>
exceptKb == <<serviceVars, unitVars, health, rag, webhook, wazuh, fetch, verifier>>
exceptVerifier == <<serviceVars, unitVars, health, rag, webhook, wazuh, fetch, kb>>
nonServiceVars == <<unitVars, auxVars>>
vars == <<serviceVars, unitVars, auxVars>>

----------------------------------------------------------------------------
(* Bounds of the model *)

MaxRequests == 2
MaxBatch == 2
MaxTopK == 3
MaxCallers == 3
MaxTime == 21
TickMinutes == 7
MaxFetched == 2
MaxCreateCalls == 3

----------------------------------------------------------------------------
(* Python values *)

PyNone == [tag |-> "None"]
NoCall == [tag |-> "NoCall"]
PyList(items) == [tag |-> "list", items |-> items]
Exc(cls, msg) == [cls |-> cls, msg |-> msg]
Return(v) == [tag |-> "Return", v |-> v]
Raise(e) == [tag |-> "Raise", exc |-> e]
Float(n) == [num |-> n, den |-> 1]

\* Classes deriving from Exception; asyncio.CancelledError derives from
\* BaseException only and is not among them.
ExceptionClasses ==
    {"TimeoutException", "ConnectError", "JSONDecodeError", "KeyError",
     "ValidationError", "AttributeError", "RuntimeError", "HTTPException",
     "ValueError", "HTTPStatusError"}

IsExceptionObject(x) == "cls" \in DOMAIN x
isinstance_Exception(x) == IsExceptionObject(x) /\ x.cls \in ExceptionClasses
str(e) == e.msg

\* Python truthiness of Optional[str], Optional[int], int and dict values
TruthyStr(s) == s # "None" /\ s # ""
TruthyOptInt(p) == p # <<>> /\ p[1] # 0
TruthyInt(n) == n # 0
TruthyDict(d) == DOMAIN d # {}

Range(seq) == {seq[i] : i \in 1..Len(seq)}

----------------------------------------------------------------------------
(* SecurityAlert *)

NumFeatures == 77
MaxRuleLevel == 15

FlowFields ==
    <<"flow_duration", "total_fwd_packets", "total_bwd_packets",
      "total_length_fwd_packets", "total_length_bwd_packets">>

\* full_log values: None, a str, or a dict that may hold 'network_flow'
FullLogNone == [kind |-> "None"]
FullLogStr == [kind |-> "str"]
FullLogDict(d) == [kind |-> "dict", d |-> d]

\* Values stored under a dict key: a nested dict or a str
DictVal(d) == [kind |-> "dict", d |-> d]
StrVal == [kind |-> "str"]
EmptyDict == <<>>

FlowSample == [f \in {"flow_duration", "total_fwd_packets"} |->
                  IF f = "flow_duration" THEN Float(120) ELSE Float(8)]

FullLogs ==
    {FullLogNone, FullLogStr,
     FullLogDict(EmptyDict),
     FullLogDict([k \in {"agent"} |-> StrVal]),
     FullLogDict([k \in {"network_flow"} |-> DictVal(EmptyDict)]),
     FullLogDict([k \in {"network_flow"} |-> StrVal]),
     FullLogDict([k \in {"network_flow"} |-> DictVal(FlowSample)])}

SecurityAlert(id, level, sip, sport, dip, dport, user, process, full_log) ==
    [alert_id |-> id, rule_level |-> level, source_ip |-> sip,
     source_port |-> sport, dest_ip |-> dip, dest_port |-> dport,
     user |-> user, process |-> process, full_log |-> full_log]

RuleLevels == {0, 10}
OptStrs == {"None", "x"}

\* Alerts the ingestion boundary may hand to /analyze
Alerts ==
    {SecurityAlert("a1", l, sip, <<443>>, "None", <<>>, u, "None", fl) :
        l \in RuleLevels, sip \in OptStrs, u \in OptStrs, fl \in FullLogs}

\* Alerts of a batch: one with flow data, one with no usable metadata
BatchAlerts ==
    {SecurityAlert("a1", 10, "x", <<443>>, "x", <<22>>, "x", "None",
                   FullLogDict([k \in {"network_flow"} |-> DictVal(FlowSample)])),
     SecurityAlert("a2", 0, "None", <<>>, "None", <<>>, "None", "None", FullLogNone)}

\* Alerts _extract_network_features is studied on: every combination of
\* present and absent optional fields, severities at both ends of the range,
\* and every shape of full_log
FlowFull == [f \in Range(FlowFields) |-> Float(3)]
FlowOther == [f \in {"protocol"} |-> Float(6)]

ExtractFullLogs ==
    FullLogs \cup {FullLogDict([k \in {"network_flow"} |-> DictVal(FlowFull)]),
                   FullLogDict([k \in {"network_flow"} |-> DictVal(FlowOther)])}

ExtractLevels == {0, 1, MaxRuleLevel}
OptPorts == {<<>>, <<0>>, <<443>>}

ExtractAlerts ==
    {SecurityAlert("a1", l, sip, sport, dip, dport, u, p, fl) :
        l \in ExtractLevels, sip \in OptStrs, sport \in OptPorts,
        dip \in OptStrs, dport \in {<<>>, <<22>>}, u \in OptStrs,
        p \in OptStrs, fl \in ExtractFullLogs}

----------------------------------------------------------------------------
(* MLInferenceClient._extract_network_features *)

dict_get(d, key, default) == IF key \in DOMAIN d THEN d[key] ELSE default

TruthyFullLog(fl) ==
    CASE fl.kind = "None" -> FALSE
      [] fl.kind = "str"  -> TRUE
      [] fl.kind = "dict" -> TruthyDict(fl.d)

TruthyVal(v) == IF v.kind = "dict" THEN TruthyDict(v.d) ELSE TRUE

Zeros(n) == [i \in 1..n |-> Float(0)]

\* Variant of PadAndTruncate that leaves a short list short
PadAndTruncateNoPad(features) == features

\* while len(features) < 77: features.append(0.0); return features[:77]
PadAndTruncate(features) ==
    LET padded == IF Len(features) < NumFeatures
                  THEN features \o Zeros(NumFeatures - Len(features))
                  ELSE features
    IN  SubSeq(padded, 1, NumFeatures)

\* The five flow.get(name, 0.0) reads; .get on a str raises AttributeError
FlowFeatures(flow) ==
    IF flow.kind # "dict"
    THEN Raise(Exc("AttributeError", "'str' object has no attribute 'get'"))
    ELSE Return([i \in 1..Len(FlowFields) |-> dict_get(flow.d, FlowFields[i], Float(0))])

\* Variant of SyntheticFeatures with the two port slots exchanged
SyntheticFeaturesPortsSwapped(alert) ==
    [i \in 1..NumFeatures |->
        CASE i = 1 -> IF TruthyInt(alert.rule_level)
                      THEN Float(alert.rule_level) ELSE Float(0)
          [] i = 2 -> IF TruthyInt(alert.rule_level)
                      THEN [num |-> alert.rule_level, den |-> MaxRuleLevel]
                      ELSE Float(0)
          [] i = 3 -> IF TruthyOptInt(alert.dest_port)
                      THEN Float(alert.dest_port[1]) ELSE Float(0)
          [] i = 4 -> IF TruthyOptInt(alert.source_port)
                      THEN Float(alert.source_port[1]) ELSE Float(0)
          [] i = 5 -> IF TruthyStr(alert.source_ip) THEN Float(1) ELSE Float(0)
          [] i = 6 -> IF TruthyStr(alert.dest_ip) THEN Float(1) ELSE Float(0)
          [] i = 7 -> IF TruthyStr(alert.user) THEN Float(1) ELSE Float(0)
          [] i = 8 -> IF TruthyStr(alert.process) THEN Float(1) ELSE Float(0)
          [] OTHER -> Float(0)]

SyntheticFeatures(alert) ==
    [i \in 1..NumFeatures |->
        CASE i = 1 -> IF TruthyInt(alert.rule_level)
                      THEN Float(alert.rule_level) ELSE Float(0)
          [] i = 2 -> IF TruthyInt(alert.rule_level)
                      THEN [num |-> alert.rule_level, den |-> MaxRuleLevel]
                      ELSE Float(0)
          [] i = 3 -> IF TruthyOptInt(alert.source_port)
                      THEN Float(alert.source_port[1]) ELSE Float(0)
          [] i = 4 -> IF TruthyOptInt(alert.dest_port)
                      THEN Float(alert.dest_port[1]) ELSE Float(0)
          [] i = 5 -> IF TruthyStr(alert.source_ip) THEN Float(1) ELSE Float(0)
          [] i = 6 -> IF TruthyStr(alert.dest_ip) THEN Float(1) ELSE Float(0)
          [] i = 7 -> IF TruthyStr(alert.user) THEN Float(1) ELSE Float(0)
          [] i = 8 -> IF TruthyStr(alert.process) THEN Float(1) ELSE Float(0)
          [] OTHER -> Float(0)]

\* Variant of ExtractBody that synthesizes a vector for every alert without
\* flow data
ExtractBodyAlwaysSynthetic(alert) ==
    LET fl == alert.full_log
        flow == IF TruthyFullLog(fl) /\ fl.kind = "dict"
                THEN dict_get(fl.d, "network_flow", DictVal(EmptyDict))
                ELSE DictVal(EmptyDict)
    IN  IF TruthyFullLog(fl) /\ fl.kind = "dict" /\ TruthyVal(flow)
        THEN LET got == FlowFeatures(flow)
             IN  IF got.tag = "Raise" THEN got
                 ELSE Return(PyList(PadAndTruncate(got.v)))
        ELSE Return(PyList(SyntheticFeatures(alert)))

\* The body of the try block: Return(list or None) or Raise(exc)
ExtractBody(alert) ==
    LET fl == alert.full_log
        flow == IF TruthyFullLog(fl) /\ fl.kind = "dict"
                THEN dict_get(fl.d, "network_flow", DictVal(EmptyDict))
                ELSE DictVal(EmptyDict)
    IN  IF TruthyFullLog(fl) /\ fl.kind = "dict" /\ TruthyVal(flow)
        THEN LET got == FlowFeatures(flow)
             IN  IF got.tag = "Raise" THEN got
                 ELSE Return(PyList(PadAndTruncate(got.v)))
        ELSE IF TruthyStr(alert.source_ip) \/ TruthyStr(alert.dest_ip)
                \/ TruthyInt(alert.rule_level)
             THEN Return(PyList(SyntheticFeatures(alert)))
             ELSE Return(PyNone)

\* Variant of ExtractHandlers without the `except Exception` clause
ExtractHandlersNone(body) == body

\* except Exception as e: return None (lines 143-145)
ExtractHandlers(body) ==
    IF body.tag = "Raise" /\ isinstance_Exception(body.exc)
    THEN Return(PyNone)
    ELSE body

\* The outcome of one call of _extract_network_features: Return or Raise
extract_outcome(alert) == ExtractHandlers(ExtractBody(alert))

\* The value _extract_network_features returns to predict_attack_type
extract_network_features(alert) == extract_outcome(alert).v

----------------------------------------------------------------------------
(* MLInferenceClient.predict_attack_type *)

MLPredictionFields ==
    <<"prediction", "confidence", "probabilities", "model_used", "inference_time_ms">>

\* A /predict response body: whether it decodes as JSON, the keys it holds,
\* and whether the values have the types MLPrediction declares.
MlBody(json, keys, well_typed) ==
    [json |-> json, keys |-> keys, well_typed |-> well_typed]

MlBodies ==
    {MlBody(TRUE, Range(MLPredictionFields), TRUE),
     MlBody(TRUE, Range(MLPredictionFields) \ {"probabilities"}, TRUE),
     MlBody(TRUE, Range(MLPredictionFields) \ {"confidence"}, TRUE),
     MlBody(TRUE, Range(MLPredictionFields), FALSE),
     MlBody(FALSE, {}, FALSE)}

HttpRaise(cls) == [kind |-> "raise", exc |-> Exc(cls, cls)]
HttpResponse(code, body) == [kind |-> "response", status_code |-> code, body |-> body]

\* What `await client.post(.../predict)` may do
MlResponses ==
    {HttpRaise("TimeoutException"), HttpRaise("ConnectError"), HttpRaise("CancelledError")}
    \cup {HttpResponse(200, b) : b \in MlBodies}
    \cup {HttpResponse(c, MlBody(TRUE, {}, TRUE)) : c \in {400, 422, 500}}

\* The classifier service (inference_api): the number of features its models
\* were trained on, and the status POST /predict answers as far as the
\* length of `features` decides it
feature_names_count == 78

predict_feature_check(n_features) ==
    IF n_features # feature_names_count THEN 400 ELSE 200

\* The prediction the service reports on success
MLPrediction(model_name) ==
    [prediction |-> "DoS", confidence |-> 94, model_used |-> model_name]

\* First key of MLPredictionFields the body lacks (result['key'] -> KeyError)
FirstMissing(keys) ==
    LET missing == {i \in 1..Len(MLPredictionFields) : MLPredictionFields[i] \notin keys}
    IN  MLPredictionFields[CHOOSE i \in missing : \A j \in missing : i <= j]

\* The try block of predict_attack_type (lines 174-202)
PostPredict(model_name, resp) ==
    IF resp.kind = "raise" THEN Raise(resp.exc)
    ELSE IF resp.status_code = 200
    THEN IF ~resp.body.json
         THEN Raise(Exc("JSONDecodeError", "Expecting value"))
         ELSE IF Range(MLPredictionFields) \ resp.body.keys # {}
         THEN Raise(Exc("KeyError", FirstMissing(resp.body.keys)))
         ELSE IF ~resp.body.well_typed
         THEN Raise(Exc("ValidationError", "validation error for MLPrediction"))
         ELSE Return(MLPrediction(model_name))
    ELSE Return(PyNone)

\* Variant of PredictHandlers without the generic `except Exception` clause
PredictHandlersTimeoutOnly(attempt) ==
    IF attempt.tag = "Raise" /\ attempt.exc.cls = "TimeoutException"
    THEN Return(PyNone)
    ELSE attempt

\* except httpx.TimeoutException: return None / except Exception: return None
PredictHandlers(attempt) ==
    IF attempt.tag = "Raise" /\ attempt.exc.cls = "TimeoutException"
    THEN Return(PyNone)
    ELSE IF attempt.tag = "Raise" /\ isinstance_Exception(attempt.exc)
    THEN Return(PyNone)
    ELSE attempt

\* Variant of predict_attack_type without the `if not self.enabled` check
predict_attack_type_IgnoreEnabled(enabled, alert, model_name, resp) ==
    LET features == extract_network_features(alert)
    IN  IF features = PyNone
        THEN [out |-> Return(PyNone), sent |-> <<>>]
        ELSE [out |-> PredictHandlers(PostPredict(model_name, resp)),
              sent |-> <<[model_name |-> model_name,
                          n_features |-> Len(features.items)]>>]

\* predict_attack_type(alert, model_name) when the service answers resp:
\* its outcome and the requests it sent to POST /predict
predict_attack_type(enabled, alert, model_name, resp) ==
    IF ~enabled
    THEN [out |-> Return(PyNone), sent |-> <<>>]
    ELSE LET features == extract_network_features(alert)
         IN  IF features = PyNone
             THEN [out |-> Return(PyNone), sent |-> <<>>]
             ELSE [out |-> PredictHandlers(PostPredict(model_name, resp)),
                   sent |-> <<[model_name |-> model_name,
                               n_features |-> Len(features.items)]>>]

\* What `await client.get(.../health)` may do: a status, or a raise
HealthResponses ==
    {HttpRaise("TimeoutException"), HttpRaise("ConnectError"),
     HttpRaise("RuntimeError"), HttpRaise("CancelledError")}
    \cup {HttpResponse(c, PyNone) : c \in {200, 204, 404, 500, 503}}

\* The try block of check_health (lines 69-72)
CheckHealthTry(resp) ==
    IF resp.kind = "raise" THEN Raise(resp.exc)
    ELSE Return(resp.status_code = 200)

\* Variant of CheckHealthHandlers without the `except Exception` clause
CheckHealthHandlersNone(attempt) == attempt

\* except Exception as e: return False (lines 73-75)
CheckHealthHandlers(attempt) ==
    IF attempt.tag = "Raise" /\ isinstance_Exception(attempt.exc)
    THEN Return(FALSE)
    ELSE attempt

\* MLInferenceClient.check_health when GET /health would answer resp: its
\* outcome and whether the service was contacted
check_health(enabled, resp) ==
    IF ~enabled
    THEN [out |-> Return(FALSE), contacted |-> FALSE]
    ELSE [out |-> CheckHealthHandlers(CheckHealthTry(resp)), contacted |-> TRUE]

\* predict_with_fallback: models = ["random_forest", "xgboost", "decision_tree"]
models == <<"random_forest", "xgboost", "decision_tree">>

\* `if prediction:` -- a returned MLPrediction object is truthy, None is not
TruthyPrediction(v) == v # PyNone

\* Variant of FallbackIteration that returns after the first model
FallbackIterationFirstOnly(idx, prediction) ==
    [next |-> "return", v |-> prediction, idx |-> idx]

\* Variant of FallbackIteration that keeps looping after a success
FallbackIterationNoShortCircuit(idx, prediction) ==
    IF idx < Len(models)
    THEN [next |-> "loop", v |-> prediction, idx |-> idx + 1]
    ELSE [next |-> "return", v |-> prediction, idx |-> idx]

\* One iteration of the loop of predict_with_fallback over models[idx]:
\* return the prediction, go on to the next model, or return None at the end
FallbackIteration(idx, prediction) ==
    IF TruthyPrediction(prediction)
    THEN [next |-> "return", v |-> prediction, idx |-> idx]
    ELSE IF idx < Len(models)
    THEN [next |-> "loop", v |-> PyNone, idx |-> idx + 1]
    ELSE [next |-> "return", v |-> PyNone, idx |-> idx]

----------------------------------------------------------------------------
(* OllamaClient (llm_client.py): the generative-model gateway *)

primary_model == "foundation-sec-8b"
fallback_model == "llama3.1:8b"

SeverityLevel == {"critical", "high", "medium", "low", "informational"}
AlertCategory ==
    {"malware", "intrusion_attempt", "data_exfiltration",
     "privilege_escalation", "anomaly", "other"}

\* JSON values
JStr(x) == [t |-> "str", s |-> x]
JNum(x) == [t |-> "num", n |-> x]
JBool(x) == [t |-> "bool", b |-> x]
JList(x) == [t |-> "list", l |-> x]

\* Fields the output contract requires, with their JSON types
RequiredFields ==
    [severity |-> "str", category |-> "str", confidence |-> "num",
     is_true_positive |-> "bool", recommendations |-> "list",
     investigation_priority |-> "num"]

ValidAnswer ==
    [severity |-> JStr("high"), category |-> JStr("intrusion_attempt"),
     confidence |-> JNum(88), is_true_positive |-> JBool(TRUE),
     recommendations |-> JList(<<[action |-> "Block IP", priority |-> 1,
                                  rationale |-> "Stop attack"]>>),
     investigation_priority |-> JNum(2)]

Without(obj, key) == [k \in DOMAIN obj \ {key} |-> obj[k]]

\* JSON objects a generative model may answer with
LlmObjects ==
    {ValidAnswer,
     Without(ValidAnswer, "severity"),
     [ValidAnswer EXCEPT !.confidence = JStr("very")],
     [ValidAnswer EXCEPT !.severity = JStr("catastrophic")]}

\* An answer text is a sequence of tokens: a code fence, a JSON object, or
\* text that is not JSON
Fence == [tok |-> "fence"]
JsonTok(obj) == [tok |-> "json", obj |-> obj]
Prose == [tok |-> "prose"]
PyStr(tokens) == [tag |-> "str", tokens |-> tokens]

LlmTexts ==
    {PyStr(<<JsonTok(o)>>) : o \in LlmObjects}
    \cup {PyStr(<<Fence, JsonTok(ValidAnswer), Fence>>)}
    \cup {PyStr(<<Prose>>)}

\* Answers _parse_llm_response is studied on: the valid object, the object
\* without each required field, with a wrongly typed field, with a value
\* outside an enum; bare, fenced, half-fenced; text that is not JSON; nothing
ParseObjects ==
    {ValidAnswer}
    \cup {Without(ValidAnswer, k) : k \in DOMAIN RequiredFields}
    \cup {[ValidAnswer EXCEPT !.confidence = JStr("very")],
          [ValidAnswer EXCEPT !.recommendations = JStr("none")],
          [ValidAnswer EXCEPT !.severity = JStr("catastrophic")],
          [ValidAnswer EXCEPT !.category = JStr("unknown")]}

ParseTexts ==
    {PyStr(<<JsonTok(o)>>) : o \in ParseObjects}
    \cup {PyStr(<<Fence, JsonTok(o), Fence>>) : o \in ParseObjects}
    \cup {PyStr(<<Fence, JsonTok(ValidAnswer)>>), PyStr(<<JsonTok(ValidAnswer), Fence>>),
          PyStr(<<Prose>>), PyStr(<<Fence, Prose, Fence>>), PyStr(<<>>),
          PyStr(<<Prose, JsonTok(ValidAnswer)>>)}

\* What `await client.post(.../api/generate)` may do
OllamaResponses ==
    {HttpRaise("TimeoutException"), HttpRaise("ConnectError"), HttpRaise("RuntimeError")}
    \cup {HttpResponse(200, t) : t \in LlmTexts}
    \cup {HttpResponse(500, PyStr(<<Prose>>))}

\* Failures the gateway reports as "unavailable" (None)
UnavailableClasses == {"TimeoutException", "ConnectError"}

\* _call_ollama(prompt, model): the answer text, or None when unavailable
call_ollama(model, resp) ==
    IF resp.kind = "raise"
    THEN IF resp.exc.cls \in UnavailableClasses THEN Return(PyNone) ELSE Raise(resp.exc)
    ELSE IF resp.status_code = 200 THEN Return(resp.body) ELSE Return(PyNone)

\* OllamaClient.check_health: True when the liveness call answers 200, False
\* when it answers otherwise or fails
ollama_check_health(resp) ==
    IF resp.kind = "raise"
    THEN IF isinstance_Exception(resp.exc) THEN Return(FALSE) ELSE Raise(resp.exc)
    ELSE Return(resp.status_code = 200)

\* Variant of StripFence that strips the leading fence only
StripFenceLeadingOnly(tokens) ==
    IF Len(tokens) > 0 /\ tokens[1] = Fence THEN Tail(tokens) ELSE tokens

\* Strip a leading and a trailing code fence
StripFence(tokens) ==
    LET a == IF Len(tokens) > 0 /\ tokens[1] = Fence THEN Tail(tokens) ELSE tokens
    IN  IF Len(a) > 0 /\ a[Len(a)] = Fence THEN SubSeq(a, 1, Len(a) - 1) ELSE a

json_loads(tokens) ==
    IF Len(tokens) = 1 /\ tokens[1].tok = "json"
    THEN Return(tokens[1].obj)
    ELSE Raise(Exc("JSONDecodeError", "Expecting value"))

WellFormed(obj) ==
    /\ \A k \in DOMAIN RequiredFields : k \in DOMAIN obj /\ obj[k].t = RequiredFields[k]
    /\ obj.severity.s \in SeverityLevel
    /\ obj.category.s \in AlertCategory

TriageResponse(alert_id, obj, model_used) ==
    [alert_id |-> alert_id, severity |-> obj.severity.s, category |-> obj.category.s,
     confidence |-> obj.confidence.n, is_true_positive |-> obj.is_true_positive.b,
     recommendations |-> obj.recommendations.l,
     investigation_priority |-> obj.investigation_priority.n,
     model_used |-> model_used, ml_prediction |-> "None", ml_confidence |-> <<>>]

\* Variant of parse_llm_response that answers an ill-formed object with a
\* verdict holding only what the gateway itself knows
parse_llm_response_Partial(alert, text, model) ==
    LET loaded == json_loads(StripFence(text.tokens))
    IN  IF loaded.tag = "Raise" THEN PyNone
        ELSE IF ~WellFormed(loaded.v)
        THEN [alert_id |-> alert.alert_id, model_used |-> model,
              ml_prediction |-> "None", ml_confidence |-> <<>>]
        ELSE TriageResponse(alert.alert_id, loaded.v, model)

\* _parse_llm_response(alert, text, model): a complete verdict or None
parse_llm_response(alert, text, model) ==
    LET loaded == json_loads(StripFence(text.tokens))
    IN  IF loaded.tag = "Raise" THEN PyNone
        ELSE IF ~WellFormed(loaded.v) THEN PyNone
        ELSE TriageResponse(alert.alert_id, loaded.v, model)

\* Variant of AttachMl that never attaches the classifier verdict
AttachMlNever(result, ml_prediction) == result

\* Attach the classifier verdict's label and confidence when one was obtained
AttachMl(result, ml_prediction) ==
    IF result = PyNone \/ ml_prediction = PyNone THEN result
    ELSE [result EXCEPT !.ml_prediction = ml_prediction.prediction,
                        !.ml_confidence = <<ml_prediction.confidence>>]

----------------------------------------------------------------------------
(* The coroutine llm_client.analyze_alert(alert), one step per awaited call *)

Pending == [tag |-> "Pending"]

\* pc: where the coroutine is suspended; mlIdx: the loop index of
\* predict_with_fallback; mlTried: the predict_attack_type calls made so far
\* (model, requests sent to POST /predict, outcome); llmCalls: the generation
\* calls made so far (model, outcome); out: the coroutine's outcome
NewTask ==
    [pc |-> "predict", mlIdx |-> 1, mlTried |-> <<>>, ml_prediction |-> PyNone,
     llmCalls |-> <<>>, out |-> Pending]

\* await self.ml_client.predict_with_fallback(alert): one loop iteration
PredictStep(enabled, alert, t, resp) ==
    LET r == predict_attack_type(enabled, alert, models[t.mlIdx], resp)
        called == [t EXCEPT !.mlTried =
                      Append(@, [model_name |-> models[t.mlIdx],
                                 sent |-> r.sent, out |-> r.out])]
    IN  IF r.out.tag = "Raise"
        THEN [called EXCEPT !.pc = "done", !.out = r.out]
        ELSE LET it == FallbackIteration(t.mlIdx, r.out.v)
             IN  IF it.next = "loop"
                 THEN [called EXCEPT !.mlIdx = it.idx]
                 ELSE [called EXCEPT !.pc = "primary", !.ml_prediction = it.v]

\* Variant of ModelFor that never switches to the fallback model
ModelForAlwaysPrimary(pc) == primary_model

\* The model a generation call is issued against, by position in analyze
ModelFor(pc) == IF pc = "primary" THEN primary_model ELSE fallback_model

\* Variant of AfterUnavailable that retries the fallback model again
AfterUnavailableAlwaysRetry(pc) == "fallback"

\* Where analyze goes when a generation call was unavailable: retry once
\* against the fallback model, then give up
AfterUnavailable(pc) == IF pc = "primary" THEN "fallback" ELSE "done"

\* One generation call and what follows it without awaiting
GenerateStep(alert, t, resp) ==
    LET model == ModelFor(t.pc)
        r == call_ollama(model, resp)
        called == [t EXCEPT !.llmCalls = Append(@, [model |-> model, out |-> r])]
    IN  IF r.tag = "Raise"
        THEN [called EXCEPT !.pc = "done", !.out = r]
        ELSE IF r.v = PyNone
        THEN IF AfterUnavailable(t.pc) = "done"
             THEN [called EXCEPT !.pc = "done", !.out = Return(PyNone)]
             ELSE [called EXCEPT !.pc = AfterUnavailable(t.pc)]
        ELSE [called EXCEPT
                !.pc = "done",
                !.out = Return(AttachMl(parse_llm_response(alert, r.v, model),
                                        t.ml_prediction))]

----------------------------------------------------------------------------
(* main.py: the framework around the endpoints *)

HTTPException(status_code, detail) ==
    [cls |-> "HTTPException", msg |-> detail, status_code |-> status_code]

NoResponse == [status |-> 0]

\* @app.exception_handler(Exception)
global_exception_handler(exc) ==
    [status |-> 500,
     body |-> [error |-> "Internal server error", detail |-> str(exc)]]

\* What the HTTP caller receives for an endpoint's outcome: the returned
\* value with 200, an HTTPException's status and detail, the global
\* handler's answer for any other Exception, and the server's own 500 for
\* what is no Exception (uvicorn answers when the application raises)
HttpRespond(out) ==
    IF out.tag = "Return" THEN [status |-> 200, body |-> out.v]
    ELSE IF out.exc.cls = "HTTPException"
    THEN [status |-> out.exc.status_code, body |-> [detail |-> out.exc.msg]]
    ELSE IF isinstance_Exception(out.exc) THEN global_exception_handler(out.exc)
    ELSE [status |-> 500, body |-> [server |-> "Internal Server Error"]]

----------------------------------------------------------------------------
(* GET /health *)

\* Variant of health_status that reports a classifier outage first
health_status_MlFirst(ollama_connected, settings_ml_enabled, ml_connected) ==
    IF settings_ml_enabled /\ ~ml_connected THEN "partial"
    ELSE IF ~ollama_connected THEN "degraded"
    ELSE "healthy"

\* status = "healthy" / "degraded" / "partial" (lines 96-100)
health_status(ollama_connected, settings_ml_enabled, ml_connected) ==
    IF ~ollama_connected THEN "degraded"
    ELSE IF settings_ml_enabled /\ ~ml_connected THEN "partial"
    ELSE "healthy"

HealthResponse(status, ollama_connected, ml_connected) ==
    [status |-> status, service |-> "alert-triage",
     ollama_connected |-> ollama_connected, ml_api_connected |-> ml_connected]

----------------------------------------------------------------------------
(* POST /analyze *)

\* Variant of AnalyzeTry that does not count a 503
AnalyzeTryFailedUncounted(awaited) ==
    IF awaited.tag = "Raise" THEN [out |-> awaited, inc |-> <<>>]
    ELSE IF awaited.v = PyNone
    THEN [out |-> Raise(HTTPException(503, "LLM analysis failed - all models unavailable")),
          inc |-> <<>>]
    ELSE [out |-> Return(awaited.v), inc |-> <<"success">>]

\* The try block of analyze_alert (lines 143-169) given what
\* `await llm_client.analyze_alert(alert)` did: outcome and counter labels
AnalyzeTry(awaited) ==
    IF awaited.tag = "Raise" THEN [out |-> awaited, inc |-> <<>>]
    ELSE IF awaited.v = PyNone
    THEN [out |-> Raise(HTTPException(503, "LLM analysis failed - all models unavailable")),
          inc |-> <<"failed">>]
    ELSE [out |-> Return(awaited.v), inc |-> <<"success">>]

\* Variant of AnalyzeHandlers without `except HTTPException: raise`
AnalyzeHandlersNoReraise(attempt) ==
    IF attempt.out.tag = "Raise" /\ isinstance_Exception(attempt.out.exc)
    THEN [out |-> Raise(HTTPException(500, str(attempt.out.exc))),
          inc |-> attempt.inc \o <<"error">>]
    ELSE attempt

\* except HTTPException: raise / except Exception as e: ... raise 500
AnalyzeHandlers(attempt) ==
    IF attempt.out.tag = "Raise" /\ attempt.out.exc.cls = "HTTPException"
    THEN attempt
    ELSE IF attempt.out.tag = "Raise" /\ isinstance_Exception(attempt.out.exc)
    THEN [out |-> Raise(HTTPException(500, str(attempt.out.exc))),
          inc |-> attempt.inc \o <<"error">>]
    ELSE attempt

analyze_alert(awaited) == AnalyzeHandlers(AnalyzeTry(awaited))

----------------------------------------------------------------------------
(* POST /batch *)

\* asyncio.gather(*tasks, return_exceptions=True): each coroutine's returned
\* value, or the exception object it raised, in input order
gather(ts) ==
    [i \in 1..Len(ts) |-> IF ts[i].out.tag = "Return" THEN ts[i].out.v ELSE ts[i].out.exc]

\* result.dict(): only a TriageResponse has it
dict(result) ==
    IF "severity" \in DOMAIN result THEN Return(result)
    ELSE Raise(Exc("AttributeError", "object has no attribute 'dict'"))

NoneError == "LLM analysis returned None"

\* Variant of Categorize whose None branch does not append to `failed`
RECURSIVE CategorizeNoneNotFailed(_, _, _, _)
CategorizeNoneNotFailed(as, results, idx, acc) ==
    IF idx > Len(results) THEN Return(acc)
    ELSE LET result == results[idx]
             alert_id == as[idx].alert_id
         IN  IF isinstance_Exception(result)
             THEN CategorizeNoneNotFailed(as, results, idx + 1,
                    [acc EXCEPT !.failed = Append(@, alert_id),
                                !.errors = Append(@, [alert_id |-> alert_id,
                                                      error |-> str(result)])])
             ELSE IF result = PyNone
             THEN CategorizeNoneNotFailed(as, results, idx + 1,
                    [acc EXCEPT !.errors = Append(@, [alert_id |-> alert_id,
                                                      error |-> "LLM analysis returned None"])])
             ELSE LET d == dict(result)
                  IN  IF d.tag = "Raise" THEN d
                      ELSE CategorizeNoneNotFailed(as, results, idx + 1,
                             [acc EXCEPT !.successful = Append(@, d.v)])

\* The loop `for idx, result in enumerate(results)` from index idx on;
\* acc holds the lists successful, failed and errors
\* Variant of Categorize that takes the identifier of the outcome's position
\* among the failures seen so far instead of its position in the input
RECURSIVE CategorizeByFailureRank(_, _, _, _)
CategorizeByFailureRank(as, results, idx, acc) ==
    IF idx > Len(results) THEN Return(acc)
    ELSE LET result == results[idx]
             alert_id == as[Len(acc.failed) + 1].alert_id
         IN  IF isinstance_Exception(result)
             THEN CategorizeByFailureRank(as, results, idx + 1,
                    [acc EXCEPT !.failed = Append(@, alert_id),
                                !.errors = Append(@, [alert_id |-> alert_id,
                                                      error |-> str(result)])])
             ELSE IF result = PyNone
             THEN CategorizeByFailureRank(as, results, idx + 1,
                    [acc EXCEPT !.failed = Append(@, alert_id),
                                !.errors = Append(@, [alert_id |-> alert_id,
                                                      error |-> NoneError])])
             ELSE LET d == dict(result)
                  IN  IF d.tag = "Raise" THEN d
                      ELSE CategorizeByFailureRank(as, results, idx + 1,
                             [acc EXCEPT !.successful = Append(@, d.v)])

RECURSIVE Categorize(_, _, _, _)
Categorize(as, results, idx, acc) ==
    IF idx > Len(results) THEN Return(acc)
    ELSE LET result == results[idx]
             alert_id == as[idx].alert_id
         IN  IF isinstance_Exception(result)
             THEN Categorize(as, results, idx + 1,
                    [acc EXCEPT !.failed = Append(@, alert_id),
                                !.errors = Append(@, [alert_id |-> alert_id,
                                                      error |-> str(result)])])
             ELSE IF result = PyNone
             THEN Categorize(as, results, idx + 1,
                    [acc EXCEPT !.failed = Append(@, alert_id),
                                !.errors = Append(@, [alert_id |-> alert_id,
                                                      error |-> NoneError])])
             ELSE LET d == dict(result)
                  IN  IF d.tag = "Raise" THEN d
                      ELSE Categorize(as, results, idx + 1,
                             [acc EXCEPT !.successful = Append(@, d.v)])

Aggregate(total, successful, failed, errors) ==
    [total |-> total, successful |-> Len(successful), failed |-> Len(failed),
     results |-> successful, errors |-> errors]

\* batch_analyze for an empty list (lines 194-201)
EmptyBatch == Return(Aggregate(0, <<>>, <<>>, <<>>))

\* batch_analyze after the gather (lines 210-248)
batch_analyze(as, results) ==
    LET c == Categorize(as, results, 1,
                        [successful |-> <<>>, failed |-> <<>>, errors |-> <<>>])
    IN  IF c.tag = "Raise" THEN c
        ELSE Return(Aggregate(Len(as), c.v.successful, c.v.failed, c.v.errors))

RECURSIVE SeqsUpTo(_, _)
SeqsUpTo(S, n) ==
    IF n = 0 THEN {<<>>}
    ELSE LET shorter == SeqsUpTo(S, n - 1)
         IN  shorter \cup {Append(q, x) : q \in shorter, x \in S}

Labels == {"success", "failed", "error"}

Inc(counter, labels) ==
    [l \in Labels |-> counter[l] + Cardinality({i \in 1..Len(labels) : labels[i] = l})]

----------------------------------------------------------------------------
(* rag-service: VectorStore.query *)

\* Fractions num/den with den > 0, and their order
Frac(n, d) == [num |-> n, den |-> d]
FracGeq(a, b) == a.num * b.den >= b.num * a.den

\* similarity = 1 - (distance / 2)
similarity(distance) == Frac(2 * distance.den - distance.num, 2 * distance.den)

\* Documents of the knowledge base with their distance to the query, in
\* ascending distance: the store's metric is squared L2 over normalized
\* embeddings, which ranges over [0, 4]
Hit(doc, technique_id, distance) ==
    [document |-> doc, metadata |-> [technique_id |-> technique_id],
     distance |-> distance]

KbDocs ==
    <<Hit("d1", "T1110", Frac(2, 10)), Hit("d2", "T1021", Frac(1, 1)),
      Hit("d3", "T1078", Frac(1, 1)), Hit("d4", "T1059", Frac(2, 1)),
      Hit("d5", "T1566", Frac(3, 1))>>

RECURSIVE SubSeqsOf(_)
SubSeqsOf(seq) ==
    IF seq = <<>> THEN {<<>>}
    ELSE LET rest == SubSeqsOf(Tail(seq))
         IN  rest \cup {<<Head(seq)>> \o r : r \in rest}

\* A named collection: missing, or holding some of the documents
NoCollection == [exists |-> FALSE]
Collection(docs) == [exists |-> TRUE, docs |-> docs]
Collections == {NoCollection} \cup {Collection(d) : d \in SubSeqsOf(KbDocs)}

TopKs == 1..MaxTopK
MinSimilarities == {Frac(0, 1), Frac(1, 2), Frac(9, 10), Frac(1, 1)}

\* collection.query(query_embeddings, n_results): the n_results nearest
\* documents in ascending distance
collection_query(collection, n_results) ==
    SubSeq(collection.docs, 1, IF n_results < Len(collection.docs)
                               THEN n_results ELSE Len(collection.docs))

\* Variant of AboveThreshold that keeps every hit
AboveThresholdAlways(sim, min_similarity) == TRUE

\* if similarity >= min_similarity
AboveThreshold(sim, min_similarity) == FracGeq(sim, min_similarity)

\* Variant of FilterStep that puts a kept hit in front of the list
FilterStepPrepend(filtered_results, hit, min_similarity) ==
    LET sim == similarity(hit.distance)
    IN  IF AboveThreshold(sim, min_similarity)
        THEN <<[document |-> hit.document, metadata |-> hit.metadata,
                similarity_score |-> sim]>> \o filtered_results
        ELSE filtered_results

\* The body of the loop over the hits: convert the distance, append the hit
\* if its similarity reaches the threshold
FilterStep(filtered_results, hit, min_similarity) ==
    LET sim == similarity(hit.distance)
    IN  IF AboveThreshold(sim, min_similarity)
        THEN Append(filtered_results,
                    [document |-> hit.document, metadata |-> hit.metadata,
                     similarity_score |-> sim])
        ELSE filtered_results

\* for doc, metadata, distance in zip(...): the loop from index idx on
RECURSIVE FilterLoop(_, _, _, _)
FilterLoop(hits, idx, min_similarity, filtered_results) ==
    IF idx > Len(hits) THEN filtered_results
    ELSE FilterLoop(hits, idx + 1, min_similarity,
                    FilterStep(filtered_results, hits[idx], min_similarity))

\* The try block of VectorStore.query (lines 191-236): outcome, whether the
\* store was queried and the hits it returned.  fail: which collaborator
\* raises, if any ("embed": the embedding engine, "query": the store)
QueryTry(client, collection, fail, top_k, min_similarity) ==
    IF ~client
    THEN [out |-> Return(<<>>), store_queried |-> FALSE, store_hits |-> <<>>]
    ELSE IF ~collection.exists
    THEN [out |-> Raise(Exc("ValueError", "Collection does not exist")),
          store_queried |-> FALSE, store_hits |-> <<>>]
    ELSE IF fail = "embed"
    THEN [out |-> Raise(Exc("RuntimeError", "embedding failed")),
          store_queried |-> FALSE, store_hits |-> <<>>]
    ELSE IF fail = "query"
    THEN [out |-> Raise(Exc("ConnectError", "store unreachable")),
          store_queried |-> FALSE, store_hits |-> <<>>]
    ELSE LET hits == collection_query(collection, top_k)
         IN  [out |-> IF hits = <<>> THEN Return(<<>>)
                      ELSE Return(FilterLoop(hits, 1, min_similarity, <<>>)),
              store_queried |-> TRUE, store_hits |-> hits]

\* Variant of QueryHandlers without the `except Exception` clause
QueryHandlersNone(attempt) == attempt

\* except Exception as e: return [] (lines 238-241)
QueryHandlers(attempt) ==
    IF attempt.out.tag = "Raise" /\ isinstance_Exception(attempt.out.exc)
    THEN [attempt EXCEPT !.out = Return(<<>>)]
    ELSE attempt

vector_store_query(client, collection, fail, top_k, min_similarity) ==
    QueryHandlers(QueryTry(client, collection, fail, top_k, min_similarity))

----------------------------------------------------------------------------
(* wazuh-integration: AIClient and the /webhook handler *)

\* Settings.min_severity and Settings.rag_severity_threshold
min_severity == 7
rag_severity_threshold == 8

\* rule.mitre: absent, a mapping with technique ids, a mapping without "id"
NoMitre == [present |-> FALSE]
MitreIds(ids) == [present |-> TRUE, d |-> [id |-> ids]]
MitreTactics == [present |-> TRUE, d |-> [tactic |-> <<"Credential Access">>]]

WazuhAlert(level, mitre) ==
    [id |-> "1705155045.123456",
     rule |-> [level |-> level, description |-> "Multiple failed login attempts",
               mitre |-> mitre]]

WebhookLevels == {0, 6, 7, 8, 15}
WazuhAlerts ==
    {WazuhAlert(l, m) : l \in WebhookLevels,
                        m \in {NoMitre, MitreIds(<<"T1110">>), MitreTactics}}

\* Response bodies: a JSON document, or text that is no JSON
JsonBody(v) == [json |-> TRUE, v |-> v]
NotJson == [json |-> FALSE, text |-> "<html>502 Bad Gateway</html>"]

\* The TriageResponse of the alert-triage service, and one lacking a field
TriageJson ==
    [severity |-> "high", category |-> "intrusion_attempt",
     confidence |-> Frac(9, 10), summary |-> "Brute force SSH attack",
     is_true_positive |-> TRUE, recommendations |-> <<>>,
     investigation_priority |-> 2]
TriageJsonNoSeverity ==
    [k \in DOMAIN TriageJson \ {"severity"} |-> TriageJson[k]]

EnrichedTriageKeys ==
    <<"severity", "category", "confidence", "summary", "is_true_positive",
      "recommendations", "investigation_priority">>

\* What `await client.post(.../analyze)` may do
TriageHttpResponses ==
    {HttpRaise("TimeoutException"), HttpRaise("ConnectError"),
     HttpResponse(503, JsonBody([detail |-> "LLM analysis failed - all models unavailable"])),
     HttpResponse(200, JsonBody(TriageJson)),
     HttpResponse(200, JsonBody(TriageJsonNoSeverity)),
     HttpResponse(200, NotJson)}

\* Documents of the RAG service's answer: the text and its length
Doc(text, len) == [text |-> text, len |-> len]
RagItem(doc, metadata) == [document |-> doc, metadata |-> metadata]
RagItems ==
    <<RagItem(Doc("Brute Force", 11), [technique_id |-> "T1110"]),
      RagItem(Doc("Valid Accounts", 800), [technique_id |-> "T1078"]),
      RagItem(Doc("", 0), [source |-> "runbook"]),
      RagItem(Doc("Remote Services", 15), [technique_id |-> "T1021"])>>

\* RetrievalResponse(query, results, total_results)
RetrievalResponse(results) ==
    [query |-> "q", results |-> results, total_results |-> Len(results)]

\* What `await client.post(.../retrieve)` may do
RagHttpResponses ==
    {HttpRaise("TimeoutException"), HttpRaise("ConnectError"),
     HttpResponse(500, JsonBody([detail |-> "error"])),
     HttpResponse(404, NotJson),
     HttpResponse(200, NotJson)}
    \cup {HttpResponse(200, JsonBody(RetrievalResponse(SubSeq(RagItems, i, j)))) :
            i \in {1, 3}, j \in {0, 3, 4}}

\* Classes deriving from httpx.HTTPError; json.JSONDecodeError derives from
\* ValueError and is not among them
HTTPErrorClasses == {"TimeoutException", "ConnectError", "HTTPStatusError"}

\* response.raise_for_status(); response.json()
raise_for_status_json(resp) ==
    IF resp.kind = "raise" THEN Raise(resp.exc)
    ELSE IF resp.status_code \notin 200..299
    THEN Raise(Exc("HTTPStatusError", "Server error"))
    ELSE IF ~resp.body.json
    THEN Raise(Exc("JSONDecodeError", "Expecting value: line 1 column 1 (char 0)"))
    ELSE Return(resp.body.v)

\* AIClient.analyze_alert: `except httpx.HTTPError: raise` lets every
\* exception through
AIClient_analyze_alert(resp) == raise_for_status_json(resp)

\* except httpx.HTTPError as e: return None
EnrichHandlers(attempt) ==
    IF attempt.tag = "Raise" /\ attempt.exc.cls \in HTTPErrorClasses
    THEN Return(PyNone)
    ELSE attempt

\* AIClient.enrich_with_rag
enrich_with_rag(resp) == EnrichHandlers(raise_for_status_json(resp))

\* Variant of BelowMinSeverity that filters nothing
BelowMinSeverityNever(level) == FALSE

\* if alert.rule.level < app.state.settings.min_severity
BelowMinSeverity(level) == level < min_severity

\* Variant of AtRagThreshold that enriches every alert
AtRagThresholdAlways(level) == TRUE

\* if alert.rule.level >= app.state.settings.rag_severity_threshold
AtRagThreshold(level) == level >= rag_severity_threshold

LowSeverity(level) ==
    HTTPException(400, [msg |-> "Alert severity below minimum threshold",
                        level |-> level, min_severity |-> min_severity])

\* mitre_techniques = alert.rule.mitre.get("id") if alert.rule.mitre
mitre_techniques(alert) ==
    IF alert.rule.mitre.present
    THEN dict_get(alert.rule.mitre.d, "id", PyNone)
    ELSE PyNone

\* r["document"][:500]
Truncate500(doc) == Doc(doc.text, IF doc.len > 500 THEN 500 ELSE doc.len)

\* The loop over results[:3]: the context parts and the references
RECURSIVE ContextParts(_)
ContextParts(results) ==
    IF results = <<>> THEN <<>>
    ELSE (IF Head(results).document.len > 0
          THEN <<Truncate500(Head(results).document)>> ELSE <<>>)
         \o ContextParts(Tail(results))

RECURSIVE KbRefs(_)
KbRefs(results) ==
    IF results = <<>> THEN <<>>
    ELSE (IF "technique_id" \in DOMAIN Head(results).metadata
          THEN <<Head(results).metadata.technique_id>> ELSE <<>>)
         \o KbRefs(Tail(results))

FirstThree(results) ==
    SubSeq(results, 1, IF Len(results) < 3 THEN Len(results) ELSE 3)

\* "\n---\n".join(context_parts): the joined parts, in order
Joined(parts) == [tag |-> "str", parts |-> parts]

\* if rag_result: (None, or a JSON object with fields)
TruthyRagResult(rag_result) == rag_result # PyNone /\ DOMAIN rag_result # {}

\* Step 3 of the handler: the EnrichedAlert, with the RAG context if any
BuildEnriched(alert, triage_result, rag_result, rag_enrichment_applied) ==
    LET missing == {i \in DOMAIN EnrichedTriageKeys :
                       EnrichedTriageKeys[i] \notin DOMAIN triage_result}
        enrich == /\ TruthyRagResult(rag_result)
                  /\ dict_get(rag_result, "results", <<>>) # <<>>
        top == IF enrich THEN FirstThree(rag_result.results) ELSE <<>>
    IN  IF missing # {}
        THEN Raise(Exc("KeyError",
                       EnrichedTriageKeys[CHOOSE i \in missing : \A j \in missing : i <= j]))
        ELSE Return(
               [wazuh_alert_id |-> alert.id,
                wazuh_rule_level |-> alert.rule.level,
                wazuh_rule_description |-> alert.rule.description,
                ai_severity |-> triage_result.severity,
                ai_category |-> triage_result.category,
                ai_confidence |-> triage_result.confidence,
                ai_summary |-> triage_result.summary,
                ai_is_true_positive |-> triage_result.is_true_positive,
                ai_recommendations |-> triage_result.recommendations,
                investigation_priority |-> triage_result.investigation_priority,
                rag_enrichment_applied |-> rag_enrichment_applied,
                mitre_context |-> IF enrich /\ ContextParts(top) # <<>>
                                  THEN Joined(ContextParts(top)) ELSE PyNone,
                kb_references |-> IF enrich /\ KbRefs(top) # <<>>
                                  THEN PyList(KbRefs(top)) ELSE PyNone])

\* except Exception as e: raise HTTPException(500, "Alert processing failed: ...")
WebhookHandlers(out) ==
    IF out.tag = "Raise" /\ isinstance_Exception(out.exc)
    THEN Raise(HTTPException(500, [msg |-> "Alert processing failed",
                                   error |-> str(out.exc)]))
    ELSE out

----------------------------------------------------------------------------
(* wazuh-integration: WazuhClient *)

\* timedelta(minutes=14)
token_lifetime == 14

\* A JWT of the manager (never empty), and a datetime in minutes
Token(n) == [tag |-> "str", jwt |-> n]
Datetime(minute) == [tag |-> "datetime", minute |-> minute]

\* WazuhClient.__init__: nothing cached; now is datetime.utcnow()
NewWazuhClient ==
    [_token |-> PyNone, _token_expiry |-> PyNone, now |-> 0,
     token_at |-> 0, requests |-> 0, callers |-> <<>>]

\* What `await client.post(auth_url, ...)` may do: fail, answer outside
\* 2xx, answer without data.token, answer with a token
AuthResponses ==
    {HttpRaise("TimeoutException"), HttpRaise("ConnectError"),
     HttpResponse(401, JsonBody([title |-> "Unauthorized"])),
     HttpResponse(200, JsonBody([error |-> 0])),
     HttpResponse(200, JsonBody([data |-> [token |-> "jwt"]]))}

\* Variant of CachedTokenValid that never uses the cache
CachedTokenValidNever(token, expiry, now) == FALSE

\* if self._token and self._token_expiry: if datetime.utcnow() < self._token_expiry
CachedTokenValid(token, expiry, now) ==
    /\ token # PyNone
    /\ expiry # PyNone
    /\ now < expiry.minute

\* _authenticate up to its first await, for the coroutine `via` (get_alerts
\* or health_check): return the cached token, or send the request.  at,
\* seen_token, seen_expiry, seen_at: the clock and the cache as read
AuthenticateStart(w, via) ==
    LET read == [via |-> via, at |-> w.now, seen_token |-> w._token,
                 seen_expiry |-> w._token_expiry, seen_at |-> w.token_at]
    IN  IF CachedTokenValid(w._token, w._token_expiry, w.now)
        THEN [w EXCEPT !.callers = Append(@,
                 read @@ [pc |-> "done", posted |-> FALSE, request |-> 0,
                          out |-> Return(w._token)])]
        ELSE [w EXCEPT !.requests = @ + 1,
                       !.callers = Append(@,
                 read @@ [pc |-> "posting", posted |-> TRUE, request |-> w.requests + 1,
                          out |-> Pending])]

\* _authenticate from the answer on: raise_for_status, json, cache the
\* token for 14 minutes; `except httpx.HTTPError: raise`
AuthenticateFinish(w, i, resp) ==
    LET r == raise_for_status_json(resp)
    IN  IF r.tag = "Raise"
        THEN [w EXCEPT !.callers[i].pc = "done", !.callers[i].out = r]
        ELSE IF "data" \notin DOMAIN r.v
        THEN [w EXCEPT !.callers[i].pc = "done",
                       !.callers[i].out = Raise(Exc("KeyError", "'data'"))]
        ELSE [w EXCEPT !._token = Token(w.callers[i].request),
                       !._token_expiry = Datetime(w.now + token_lifetime),
                       !.token_at = w.now,
                       !.callers[i].pc = "done",
                       !.callers[i].out = Return(Token(w.callers[i].request))]

----------------------------------------------------------------------------
(* wazuh-integration: GET /alerts *)

\* Items of the manager's answer: two alerts WazuhAlert(**raw_alert)
\* accepts, below and above the RAG threshold, and one it rejects (no rule)
RawAlert(id, level, mitre) ==
    [timestamp |-> "2025-01-13T14:30:45.123+0000", id |-> id,
     rule |-> [level |-> level, description |-> "Multiple failed login attempts",
               mitre |-> mitre]]

RawAlerts ==
    {RawAlert("w1", 7, NoMitre), RawAlert("w2", 10, MitreIds(<<"T1110">>)),
     [id |-> "w3", timestamp |-> "2025-01-13T14:31:00.000+0000"]}

\* What `await client.get(alerts_url, ...)` may do
AlertsHttpResponses ==
    {HttpRaise("TimeoutException"), HttpResponse(500, NotJson), HttpResponse(200, NotJson),
     HttpResponse(200, JsonBody([error |-> 0]))}
    \cup {HttpResponse(200, JsonBody([data |-> [affected_items |-> items]])) :
            items \in SeqsUpTo(RawAlerts, MaxFetched)}

\* WazuhClient.get_alerts once authenticated:
\* data.get("data", {}).get("affected_items", [])
get_alerts(resp) ==
    LET r == raise_for_status_json(resp)
    IN  IF r.tag = "Raise" THEN r
        ELSE IF "data" \notin DOMAIN r.v THEN Return(<<>>)
        ELSE Return(dict_get(r.v.data, "affected_items", <<>>))

\* WazuhAlert(**raw_alert): timestamp, rule and id are required
ParseWazuhAlert(raw_alert) ==
    IF {"timestamp", "rule", "id"} \subseteq DOMAIN raw_alert
    THEN Return(raw_alert)
    ELSE Raise(Exc("ValidationError", "Field required"))

\* The entry appended to enriched_alerts
EnrichedEntry(wazuh_alert, triage_result, rag_result) ==
    [wazuh_alert_id |-> wazuh_alert.id,
     wazuh_rule_level |-> wazuh_alert.rule.level,
     wazuh_rule_description |-> wazuh_alert.rule.description,
     ai_analysis |-> triage_result,
     rag_enrichment |-> IF TruthyRagResult(rag_result) THEN rag_result ELSE PyNone]

\* The request at its start; log[i]: what happened to raw_alerts[i]
NewFetch ==
    [pc |-> "fetch", fetch_resp |-> NoCall, raw_alerts |-> <<>>, idx |-> 1,
     triage_result |-> NoCall, enriched_alerts |-> <<>>, log |-> <<>>,
     response |-> NoResponse]

\* return {"total_fetched": ..., "total_analyzed": ..., "alerts": ...}
FetchSummary(f) ==
    Return([total_fetched |-> Len(f.raw_alerts),
            total_analyzed |-> Len(f.enriched_alerts),
            alerts |-> f.enriched_alerts])

\* The loop from raw_alerts[f.idx] up to its next await: alerts that do not
\* parse are skipped, the first that parses is sent to triage, and the
\* summary is returned after the last one
RECURSIVE ProcessFrom(_)
ProcessFrom(f) ==
    IF f.idx > Len(f.raw_alerts)
    THEN [f EXCEPT !.pc = "done", !.response = HttpRespond(FetchSummary(f))]
    ELSE LET parsed == ParseWazuhAlert(f.raw_alerts[f.idx])
         IN  IF parsed.tag = "Raise"
             THEN ProcessFrom([f EXCEPT !.idx = @ + 1,
                                 !.log = Append(@, [step |-> "parse", error |-> parsed.exc])])
             ELSE [f EXCEPT !.pc = "triage"]

\* Variant of OnAlertError that gives up the request
OnAlertErrorAbort(f, entry) ==
    [f EXCEPT !.pc = "done", !.log = Append(@, entry),
              !.response = HttpRespond(Raise(HTTPException(500,
                  [msg |-> "Failed to fetch alerts", error |-> str(entry.error)])))]

\* except Exception as e: ... continue (lines 267-273)
OnAlertError(f, entry) ==
    ProcessFrom([f EXCEPT !.idx = @ + 1, !.log = Append(@, entry)])

\* enriched_alerts.append(enriched_alert), then the next alert
OnAlertDone(f, entry, enriched_alert) ==
    ProcessFrom([f EXCEPT !.idx = @ + 1, !.log = Append(@, entry),
                   !.enriched_alerts = Append(@, enriched_alert)])

\* except Exception as e: raise HTTPException(500, "Failed to fetch alerts: ...")
FetchHandlers(out) ==
    IF out.tag = "Raise" /\ isinstance_Exception(out.exc)
    THEN Raise(HTTPException(500, [msg |-> "Failed to fetch alerts",
                                   error |-> str(out.exc)]))
    ELSE out

----------------------------------------------------------------------------
(* rag-service: VectorStore.create_collection, add_documents and the MITRE ingestion *)

\* batch_size = 50
batch_size == 50

\* Collections of the store: name, metadata, number of documents held
StoredCollection(name, metadata, count) ==
    [name |-> name, metadata |-> metadata, count |-> count]

CollectionNames == {"mitre_attack", "cve_database"}
NoMetadataGiven == [given |-> FALSE]
MitreMetadata == [given |-> TRUE, source |-> "mitre-attack", version |-> "enterprise"]

Named(collections, name) == {col \in collections : col.name = name}

\* client.get_collection(name): the collection, or an exception when it is
\* missing or the store does not answer (get_fail)
store_get_collection(collections, name, get_fail) ==
    IF get_fail THEN Raise(Exc("ConnectError", "store unreachable"))
    ELSE IF Named(collections, name) = {}
    THEN Raise(Exc("ValueError", "Collection does not exist"))
    ELSE Return(CHOOSE col \in Named(collections, name) : TRUE)

\* client.create_collection(name, metadata): the store refuses a name it has
store_create_collection(collections, name, metadata, create_fail) ==
    IF create_fail THEN Raise(Exc("ConnectError", "store unreachable"))
    ELSE IF Named(collections, name) # {}
    THEN Raise(Exc("ValueError", "Collection already exists"))
    ELSE Return(collections \cup {StoredCollection(name, metadata, 0)})

\* Variant of create_collection that creates without looking first
create_collection_NoLookup(client, collections, name, metadata, get_fail, create_fail) ==
    IF ~client THEN [ret |-> FALSE, collections |-> collections]
    ELSE LET made == store_create_collection(collections, name, metadata, create_fail)
         IN  IF made.tag = "Raise" THEN [ret |-> FALSE, collections |-> collections]
             ELSE [ret |-> TRUE, collections |-> made.v]

\* VectorStore.create_collection: the value returned and the store after
create_collection(client, collections, name, metadata, get_fail, create_fail) ==
    IF ~client THEN [ret |-> FALSE, collections |-> collections]
    ELSE IF store_get_collection(collections, name, get_fail).tag = "Return"
    THEN [ret |-> TRUE, collections |-> collections]
    ELSE LET made == store_create_collection(collections, name, metadata, create_fail)
         IN  IF made.tag = "Raise" THEN [ret |-> FALSE, collections |-> collections]
             ELSE [ret |-> TRUE, collections |-> made.v]

\* VectorStore.add_documents for n documents with fresh ids: the value
\* returned and the store after; add_fail: the embedding or collection.add
\* raises
add_documents(client, collections, name, n, add_fail) ==
    IF ~client THEN [ret |-> FALSE, collections |-> collections]
    ELSE LET got == store_get_collection(collections, name, FALSE)
         IN  IF got.tag = "Raise" \/ add_fail
             THEN [ret |-> FALSE, collections |-> collections]
             ELSE [ret |-> TRUE,
                   collections |-> (collections \ {got.v})
                       \cup {StoredCollection(name, got.v.metadata, got.v.count + n)}]

\* len(techniques[i:i+batch_size]) for the batch starting at offset i
BatchLen(n_techniques, i) ==
    IF n_techniques - i < batch_size THEN n_techniques - i ELSE batch_size

\* Numbers of attack-pattern objects in the loaded data
TechniqueCounts == {0, 1, 50, 51, 101}

\* The store at process start
NewKb(client) ==
    [client |-> client, collections |-> {}, calls |-> <<>>, ingest |-> NoCall]

\* ingest_mitre_attack between two batches: i is the loop variable,
\* added the number of documents the store took from this run
IngestState(n_techniques) ==
    [pc |-> "batches", n_techniques |-> n_techniques, i |-> 0, total_ingested |-> 0,
     added |-> 0, failed_batches |-> 0, result |-> NoCall]

IngestSuccess(total_ingested) ==
    [status |-> "success", techniques_ingested |-> total_ingested]
IngestError == [status |-> "error", techniques_ingested |-> 0]

\* The loop of lines 126-137 at its end: return the statistics
IngestLoop(g) ==
    IF g.i >= g.n_techniques
    THEN [g EXCEPT !.pc = "done", !.result = IngestSuccess(g.total_ingested)]
    ELSE g

\* Variant of CountBatch that counts a batch only when add_documents
\* returned True
CountBatchIfAdded(total_ingested, batch_len, ret) ==
    IF ret THEN total_ingested + batch_len ELSE total_ingested

\* total_ingested += len(batch)
CountBatch(total_ingested, batch_len, ret) == total_ingested + batch_len

----------------------------------------------------------------------------
(* ml_training/verify_deployment.py: DeploymentVerifier and main *)

\* steps of main, in list order
Steps == <<"Models Directory", "Service Health", "API Endpoints",
           "Error Handling", "Performance">>

max_retries == 10

\* print_test: the entry appended to test_results
TestResult(name, status) == [name |-> name, status |-> status]

PassFail(ok) == IF ok THEN "PASS" ELSE "FAIL"

required_files == <<"random_forest_ids.pkl", "xgboost_ids.pkl", "decision_tree_ids.pkl",
                    "scaler.pkl", "label_encoder.pkl", "feature_names.pkl">>

\* A step's outcome: the tests it recorded and the value it returned
StepOutcome(tests, ret) == [tests |-> tests, ret |-> ret]

\* verify_models_directory: exists is models_path.exists(), present the
\* set of positions in required_files whose file exists
verify_models_directory(exists, present) ==
    IF ~exists THEN StepOutcome(<<TestResult("Models directory", "FAIL")>>, FALSE)
    ELSE StepOutcome(
            <<TestResult("Models directory", "PASS")>>
            \o [k \in 1..Len(required_files) |->
                   TestResult(required_files[k], PassFail(k \in present))],
            present = 1..Len(required_files))

\* One attempt of verify_service_health's loop
HealthAttemptOutcomes == {"ok", "not_200", "ConnectionError", "Exception"}

ApiTests == <<"GET /", "GET /models", "POST /predict", "POST /predict/batch">>
ErrorTests == <<"Invalid model name", "Wrong feature count", "Missing features field">>

\* verify_api_endpoints and verify_error_handling: every test runs, each
\* records PASS or FAIL; passed is the set of positions that pass
verify_all(tests, passed) ==
    StepOutcome([k \in 1..Len(tests) |-> TestResult(tests[k], PassFail(k \in passed))],
                passed = 1..Len(tests))

PerformanceOutcomes == {"fast", "slow", "request_failed", "Exception"}

\* verify_performance
verify_performance(outcome) ==
    CASE outcome = "fast" ->
           StepOutcome(<<TestResult("Latency requirement (<100ms)", "PASS")>>, TRUE)
      [] outcome = "slow" ->
           StepOutcome(<<TestResult("Latency requirement (<100ms)", "FAIL")>>, FALSE)
      [] OTHER -> StepOutcome(<<TestResult("Performance test", "FAIL")>>, FALSE)

\* DeploymentVerifier() in main, before the first step
NewVerifier ==
    [pc |-> "steps", step |-> 1, attempt |-> 0, test_results |-> <<>>,
     ran |-> <<>>, returned |-> <<>>, exit_code |-> 0]

\* Variant of AfterStep that goes on to the next step after a failure
AfterStepNoBreak(v, outcome) ==
    LET w == [v EXCEPT !.test_results = @ \o outcome.tests,
                       !.returned = Append(@, outcome.ret),
                       !.attempt = 0]
    IN  IF v.step < Len(Steps)
        THEN [w EXCEPT !.step = @ + 1]
        ELSE [w EXCEPT !.pc = "summary"]

\* main's loop after step_func() returned: break on failure, else next step
AfterStep(v, outcome) ==
    LET w == [v EXCEPT !.test_results = @ \o outcome.tests,
                       !.returned = Append(@, outcome.ret),
                       !.attempt = 0]
    IN  IF ~outcome.ret THEN [w EXCEPT !.pc = "summary"]
        ELSE IF v.step < Len(Steps)
        THEN [w EXCEPT !.step = @ + 1]
        ELSE [w EXCEPT !.pc = "summary"]

\* step_func() is entered
EnterStep(v) == [v EXCEPT !.ran = Append(@, Steps[v.step])]

\* print_summary: the value returned, or the exception of the division
print_summary(test_results) ==
    LET total_tests == Len(test_results)
        passed_tests == Cardinality({k \in 1..total_tests : test_results[k].status = "PASS"})
        failed_tests == total_tests - passed_tests
    IN  IF total_tests = 0 THEN Raise(Exc("ZeroDivisionError", "division by zero"))
        ELSE Return(~(failed_tests > 0))

\* sys.exit(0 if success else 1); an uncaught exception ends the process
\* with status 1
ExitCode(summary) ==
    IF summary.tag = "Raise" THEN 1 ELSE IF summary.v THEN 0 ELSE 1

----------------------------------------------------------------------------
(* Actions *)

\* No function-level call is under study
\* The service right after startup, nothing received yet
ServiceStarted ==
    /\ endpoint = "idle"
    /\ alerts = <<>>
    /\ tasks = <<>>
    /\ response = NoResponse
    /\ REQUEST_COUNT = [l \in Labels |-> 0]
    /\ completed = 0

\* No function is called on its own
UnitsIdle ==
    /\ arg_alert = NoCall
    /\ ret_features = NoCall
    /\ arg_llm_output = NoCall
    /\ arg_model = ""
    /\ ret_parsed = NoCall

\* No request to the other endpoints and services
ToolsIdle ==
    /\ wazuh = NoCall
    /\ fetch = NoCall
    /\ kb = NoCall
    /\ verifier = NoCall

AuxIdle ==
    /\ health = NoCall
    /\ rag = NoCall
    /\ webhook = NoCall
    /\ ToolsIdle

Init ==
    /\ ml_enabled \in BOOLEAN
    /\ ServiceStarted
    /\ UnitsIdle
    /\ AuxIdle

\* POST /analyze arrives: the handler awaits llm_client.analyze_alert(alert)
ReceiveAnalyze ==
    /\ endpoint = "idle"
    /\ completed < MaxRequests
    /\ \E a \in Alerts :
          /\ alerts' = <<a>>
          /\ tasks' = <<NewTask>>
    /\ endpoint' = "analyze"
    /\ response' = NoResponse
    /\ UNCHANGED <<ml_enabled, REQUEST_COUNT, completed, nonServiceVars>>

\* Task i runs one iteration of predict_with_fallback
Predict(i) ==
    /\ tasks[i].pc = "predict"
    /\ \E resp \in MlResponses :
          tasks' = [tasks EXCEPT ![i] = PredictStep(ml_enabled, alerts[i], tasks[i], resp)]
    /\ UNCHANGED <<ml_enabled, endpoint, alerts, response, REQUEST_COUNT, completed, nonServiceVars>>

\* Task i calls the generative model (primary, or fallback after a failure)
Generate(i) ==
    /\ tasks[i].pc \in {"primary", "fallback"}
    /\ \E resp \in OllamaResponses :
          tasks' = [tasks EXCEPT ![i] = GenerateStep(alerts[i], tasks[i], resp)]
    /\ UNCHANGED <<ml_enabled, endpoint, alerts, response, REQUEST_COUNT, completed, nonServiceVars>>

\* The awaited analysis finished: the rest of the /analyze handler
AnalyzeRespond ==
    /\ endpoint = "analyze"
    /\ tasks[1].pc = "done"
    /\ LET r == analyze_alert(tasks[1].out)
       IN  /\ response' = HttpRespond(r.out)
           /\ REQUEST_COUNT' = Inc(REQUEST_COUNT, r.inc)
    /\ endpoint' = "idle"
    /\ completed' = completed + 1
    /\ UNCHANGED <<ml_enabled, alerts, tasks, nonServiceVars>>

\* POST /batch arrives: an empty list is answered at once, otherwise one
\* analyze_alert coroutine per alert is handed to gather.  The handler reads
\* and writes no process-wide state, so the first request of a process
\* covers every request.
ReceiveBatch ==
    /\ endpoint = "idle"
    /\ completed = 0
    /\ \E as \in SeqsUpTo(BatchAlerts, MaxBatch) :
          /\ alerts' = as
          /\ IF as = <<>>
             THEN /\ tasks' = <<>>
                  /\ response' = HttpRespond(EmptyBatch)
                  /\ endpoint' = "idle"
                  /\ completed' = completed + 1
             ELSE /\ tasks' = [i \in 1..Len(as) |-> NewTask]
                  /\ response' = NoResponse
                  /\ endpoint' = "batch"
                  /\ completed' = completed
    /\ UNCHANGED <<ml_enabled, REQUEST_COUNT, nonServiceVars>>

\* gather has every result: the rest of the /batch handler
BatchRespond ==
    /\ endpoint = "batch"
    /\ \A i \in DOMAIN tasks : tasks[i].pc = "done"
    /\ response' = HttpRespond(batch_analyze(alerts, gather(tasks)))
    /\ endpoint' = "idle"
    /\ completed' = completed + 1
    /\ UNCHANGED <<ml_enabled, alerts, tasks, REQUEST_COUNT, nonServiceVars>>

Next ==
    \/ ReceiveAnalyze
    \/ \E i \in DOMAIN tasks : Predict(i)
    \/ \E i \in DOMAIN tasks : Generate(i)
    \/ AnalyzeRespond

Spec == Init /\ [][Next]_vars

NextBatch ==
    \/ ReceiveBatch
    \/ \E i \in DOMAIN tasks : Predict(i)
    \/ \E i \in DOMAIN tasks : Generate(i)
    \/ BatchRespond

SpecBatch == Init /\ [][NextBatch]_vars

----------------------------------------------------------------------------
(* _extract_network_features on its own *)

InitExtract ==
    /\ ml_enabled = TRUE
    /\ ServiceStarted
    /\ arg_alert \in ExtractAlerts
    /\ ret_features = NoCall
    /\ arg_llm_output = NoCall
    /\ arg_model = ""
    /\ ret_parsed = NoCall
    /\ AuxIdle

\* features = self._extract_network_features(alert)
ExtractFeatures ==
    /\ ret_features = NoCall
    /\ ret_features' = extract_outcome(arg_alert)
    /\ UNCHANGED <<serviceVars, arg_alert, arg_llm_output, arg_model, ret_parsed, auxVars>>

NextExtract == ExtractFeatures

SpecExtract == InitExtract /\ [][NextExtract]_vars

----------------------------------------------------------------------------
(* _parse_llm_response on its own *)

InitParse ==
    /\ ml_enabled = TRUE
    /\ ServiceStarted
    /\ arg_alert \in BatchAlerts
    /\ ret_features = NoCall
    /\ arg_llm_output \in ParseTexts
    /\ arg_model \in {primary_model, fallback_model}
    /\ ret_parsed = NoCall
    /\ AuxIdle

\* result = self._parse_llm_response(alert, llm_output, model)
ParseResponse ==
    /\ ret_parsed = NoCall
    /\ ret_parsed' = parse_llm_response(arg_alert, arg_llm_output, arg_model)
    /\ UNCHANGED <<serviceVars, arg_alert, ret_features, arg_llm_output, arg_model, auxVars>>

NextParse == ParseResponse

SpecParse == InitParse /\ [][NextParse]_vars

----------------------------------------------------------------------------
(* GET /health, and MLInferenceClient.check_health called on its own *)

\* pc: "idle", "ollama" (awaiting llm_client.check_health), "ml" (about to
\* evaluate the classifier check), "done" (answered) or "called" (a direct
\* call of check_health returned); ollama_resp, ml_resp: what the liveness
\* endpoints did; ml_called, ml_contacted: whether check_health was called
\* and whether it contacted the service; ml_out: its outcome
NewHealth ==
    [pc |-> "idle", ollama_resp |-> NoCall, ollama_connected |-> FALSE,
     ml_called |-> FALSE, ml_contacted |-> FALSE, ml_resp |-> NoCall,
     ml_out |-> NoCall, response |-> NoResponse]

InitHealth ==
    /\ ml_enabled \in BOOLEAN
    /\ ServiceStarted
    /\ UnitsIdle
    /\ ToolsIdle
    /\ health = NewHealth
    /\ rag = NoCall
    /\ webhook = NoCall

\* GET /health arrives: the handler awaits llm_client.check_health()
ReceiveHealth ==
    /\ health.pc = "idle"
    /\ health' = [health EXCEPT !.pc = "ollama"]
    /\ UNCHANGED exceptHealth

\* llm_client.check_health() completes
OllamaHealth ==
    /\ health.pc = "ollama"
    /\ \E resp \in HealthResponses :
          LET r == ollama_check_health(resp)
              seen == [health EXCEPT !.ollama_resp = resp]
          IN  health' =
                IF r.tag = "Raise"
                THEN [seen EXCEPT !.pc = "done", !.response = HttpRespond(r)]
                ELSE [seen EXCEPT !.pc = "ml", !.ollama_connected = r.v]
    /\ UNCHANGED exceptHealth

\* ml_connected = await ...ml_client.check_health() if settings.ml_enabled
\* else False, then the rest of the handler
MlHealth ==
    /\ health.pc = "ml"
    /\ IF ml_enabled
       THEN \E resp \in HealthResponses :
               LET r == check_health(ml_enabled, resp)
                   seen == [health EXCEPT
                              !.ml_called = TRUE, !.ml_contacted = r.contacted,
                              !.ml_resp = IF r.contacted THEN resp ELSE NoCall,
                              !.ml_out = r.out, !.pc = "done"]
               IN  health' =
                     IF r.out.tag = "Raise"
                     THEN [seen EXCEPT !.response = HttpRespond(r.out)]
                     ELSE [seen EXCEPT !.response =
                             HttpRespond(Return(HealthResponse(
                                 health_status(health.ollama_connected, ml_enabled, r.out.v),
                                 health.ollama_connected, r.out.v)))]
       ELSE health' = [health EXCEPT
                         !.pc = "done",
                         !.response =
                             HttpRespond(Return(HealthResponse(
                                 health_status(health.ollama_connected, ml_enabled, FALSE),
                                 health.ollama_connected, FALSE)))]
    /\ UNCHANGED exceptHealth

\* await ml_client.check_health() called on its own
CallCheckHealth ==
    /\ health.pc = "idle"
    /\ \E resp \in HealthResponses :
          LET r == check_health(ml_enabled, resp)
          IN  health' = [health EXCEPT
                           !.pc = "called", !.ml_called = TRUE,
                           !.ml_contacted = r.contacted,
                           !.ml_resp = IF r.contacted THEN resp ELSE NoCall,
                           !.ml_out = r.out]
    /\ UNCHANGED exceptHealth

NextHealth ==
    \/ ReceiveHealth
    \/ OllamaHealth
    \/ MlHealth
    \/ CallCheckHealth

SpecHealth == InitHealth /\ [][NextHealth]_vars

----------------------------------------------------------------------------
(* VectorStore.query *)

\* A call about to be made: whether the store client was initialised, the
\* collection, which collaborator fails, and the arguments
NewQuery(client, collection, fail, top_k, min_similarity) ==
    [pc |-> "idle", client |-> client, collection |-> collection, fail |-> fail,
     top_k |-> top_k, min_similarity |-> min_similarity,
     store_queried |-> FALSE, store_hits |-> <<>>, out |-> NoCall]

InitRag ==
    /\ ml_enabled = TRUE
    /\ ServiceStarted
    /\ UnitsIdle
    /\ ToolsIdle
    /\ health = NoCall
    /\ webhook = NoCall
    /\ rag \in {NewQuery(c, col, f, k, m) :
                   c \in BOOLEAN, col \in Collections, f \in {"none", "embed", "query"},
                   k \in TopKs, m \in MinSimilarities}

\* results = await vector_store.query(...)
Query ==
    /\ rag.pc = "idle"
    /\ LET r == vector_store_query(rag.client, rag.collection, rag.fail,
                                   rag.top_k, rag.min_similarity)
       IN  rag' = [rag EXCEPT !.pc = "done", !.out = r.out,
                              !.store_queried = r.store_queried,
                              !.store_hits = r.store_hits]
    /\ UNCHANGED exceptRag

NextRag == Query

SpecRag == InitRag /\ [][NextRag]_vars

----------------------------------------------------------------------------
(* POST /webhook *)

\* pc: where the handler is suspended; calls: the services called so far;
\* triage_resp, rag_resp: what the services answered; rag_out: what
\* enrich_with_rag gave; response: what the HTTP caller receives
NewWebhook ==
    [pc |-> "idle", alert |-> NoCall, calls |-> <<>>, triage_resp |-> NoCall,
     triage_result |-> NoCall, rag_resp |-> NoCall, rag_out |-> NoCall,
     response |-> NoResponse]

InitWebhook ==
    /\ ml_enabled = TRUE
    /\ ServiceStarted
    /\ UnitsIdle
    /\ ToolsIdle
    /\ health = NoCall
    /\ rag = NoCall
    /\ webhook = NewWebhook

\* POST /webhook arrives: the severity filter, before the try block
ReceiveWebhook ==
    /\ webhook.pc = "idle"
    /\ \E a \in WazuhAlerts :
          webhook' =
            IF BelowMinSeverity(a.rule.level)
            THEN [webhook EXCEPT !.pc = "done", !.alert = a,
                    !.response = HttpRespond(Raise(LowSeverity(a.rule.level)))]
            ELSE [webhook EXCEPT !.pc = "triage", !.alert = a]
    /\ UNCHANGED exceptWebhook

\* triage_result = await ai_client.analyze_alert(alert), and the rest of the
\* handler when the alert is below the RAG threshold
TriageCall ==
    /\ webhook.pc = "triage"
    /\ \E resp \in TriageHttpResponses :
          LET r == AIClient_analyze_alert(resp)
              called == [webhook EXCEPT !.calls = Append(@, [service |-> "triage"]),
                                        !.triage_resp = resp]
          IN  webhook' =
                IF r.tag = "Raise"
                THEN [called EXCEPT !.pc = "done",
                        !.response = HttpRespond(WebhookHandlers(r))]
                ELSE IF AtRagThreshold(webhook.alert.rule.level)
                THEN [called EXCEPT !.pc = "rag", !.triage_result = r.v]
                ELSE [called EXCEPT !.pc = "done", !.triage_result = r.v,
                        !.response = HttpRespond(WebhookHandlers(
                            BuildEnriched(webhook.alert, r.v, PyNone, FALSE)))]
    /\ UNCHANGED exceptWebhook

\* rag_result = await ai_client.enrich_with_rag(...), and the rest of the
\* handler
RagCall ==
    /\ webhook.pc = "rag"
    /\ \E resp \in RagHttpResponses :
          LET r == enrich_with_rag(resp)
              called == [webhook EXCEPT
                           !.calls = Append(@, [service |-> "rag",
                                                mitre_techniques |-> mitre_techniques(webhook.alert)]),
                           !.rag_resp = resp, !.rag_out = r, !.pc = "done"]
          IN  webhook' =
                IF r.tag = "Raise"
                THEN [called EXCEPT !.response = HttpRespond(WebhookHandlers(r))]
                ELSE [called EXCEPT
                        !.response = HttpRespond(WebhookHandlers(
                            BuildEnriched(webhook.alert, webhook.triage_result, r.v,
                                          TruthyRagResult(r.v))))]
    /\ UNCHANGED exceptWebhook

NextWebhook ==
    \/ ReceiveWebhook
    \/ TriageCall
    \/ RagCall

SpecWebhook == InitWebhook /\ [][NextWebhook]_vars

----------------------------------------------------------------------------
(* WazuhClient under concurrent requests *)

InitWazuh ==
    /\ ml_enabled = TRUE
    /\ ServiceStarted
    /\ UnitsIdle
    /\ health = NoCall
    /\ rag = NoCall
    /\ webhook = NoCall
    /\ wazuh = NewWazuhClient
    /\ fetch = NoCall
    /\ kb = NoCall
    /\ verifier = NoCall

\* A GET /alerts or GET /health request reaches `await self._authenticate()`
CallAuthenticate ==
    /\ Len(wazuh.callers) < MaxCallers
    /\ \E via \in {"get_alerts", "health_check"} :
          wazuh' = AuthenticateStart(wazuh, via)
    /\ UNCHANGED exceptWazuh

\* The manager answers the authentication request of caller i
AuthAnswered(i) ==
    /\ wazuh.callers[i].pc = "posting"
    /\ \E resp \in AuthResponses :
          wazuh' = AuthenticateFinish(wazuh, i, resp)
    /\ UNCHANGED exceptWazuh

\* Time passes
Tick ==
    /\ wazuh.now + TickMinutes <= MaxTime
    /\ wazuh' = [wazuh EXCEPT !.now = @ + TickMinutes]
    /\ UNCHANGED exceptWazuh

NextWazuh ==
    \/ CallAuthenticate
    \/ \E i \in DOMAIN wazuh.callers : AuthAnswered(i)
    \/ Tick

SpecWazuh == InitWazuh /\ [][NextWazuh]_vars

----------------------------------------------------------------------------
(* GET /alerts *)

InitFetch ==
    /\ ml_enabled = TRUE
    /\ ServiceStarted
    /\ UnitsIdle
    /\ health = NoCall
    /\ rag = NoCall
    /\ webhook = NoCall
    /\ wazuh = NoCall
    /\ fetch = NewFetch
    /\ kb = NoCall
    /\ verifier = NoCall

\* raw_alerts = await wazuh_client.get_alerts(...), and the loop up to its
\* first await
FetchAlerts ==
    /\ fetch.pc = "fetch"
    /\ \E resp \in AlertsHttpResponses :
          LET r == get_alerts(resp)
              got == [fetch EXCEPT !.fetch_resp = resp]
          IN  fetch' =
                IF r.tag = "Raise"
                THEN [got EXCEPT !.pc = "done",
                                 !.response = HttpRespond(FetchHandlers(r))]
                ELSE ProcessFrom([got EXCEPT !.raw_alerts = r.v])
    /\ UNCHANGED exceptFetch

\* triage_result = await ai_client.analyze_alert(wazuh_alert)
FetchTriage ==
    /\ fetch.pc = "triage"
    /\ \E resp \in TriageHttpResponses :
          LET r == AIClient_analyze_alert(resp)
              wazuh_alert == fetch.raw_alerts[fetch.idx]
          IN  fetch' =
                IF r.tag = "Raise"
                THEN OnAlertError(fetch, [step |-> "triage", triage_resp |-> resp,
                                          error |-> r.exc])
                ELSE IF AtRagThreshold(wazuh_alert.rule.level)
                THEN [fetch EXCEPT !.pc = "rag", !.triage_result = r.v]
                ELSE OnAlertDone(fetch, [step |-> "done", triage_resp |-> resp],
                                 EnrichedEntry(wazuh_alert, r.v, PyNone))
    /\ UNCHANGED exceptFetch

\* rag_result = await ai_client.enrich_with_rag(...)
FetchRag ==
    /\ fetch.pc = "rag"
    /\ \E resp \in RagHttpResponses :
          LET r == enrich_with_rag(resp)
              wazuh_alert == fetch.raw_alerts[fetch.idx]
          IN  fetch' =
                IF r.tag = "Raise"
                THEN OnAlertError(fetch, [step |-> "rag", rag_resp |-> resp,
                                          error |-> r.exc])
                ELSE OnAlertDone(fetch, [step |-> "done", rag_resp |-> resp],
                                 EnrichedEntry(wazuh_alert, fetch.triage_result, r.v))
    /\ UNCHANGED exceptFetch

NextFetch ==
    \/ FetchAlerts
    \/ FetchTriage
    \/ FetchRag

SpecFetch == InitFetch /\ [][NextFetch]_vars

----------------------------------------------------------------------------
(* The vector store's collections *)

InitKb ==
    /\ ml_enabled = TRUE
    /\ ServiceStarted
    /\ UnitsIdle
    /\ health = NoCall
    /\ rag = NoCall
    /\ webhook = NoCall
    /\ wazuh = NoCall
    /\ fetch = NoCall
    /\ kb \in {NewKb(client) : client \in BOOLEAN}
    /\ verifier = NoCall

\* vector_store.create_collection(name, metadata), from lifespan or from
\* the ingestion; calls[k]: arguments, store before and after, value returned
CreateCollection ==
    /\ Len(kb.calls) < MaxCreateCalls
    /\ kb.ingest = NoCall
    /\ \E name \in CollectionNames, metadata \in {NoMetadataGiven, MitreMetadata},
          get_fail \in BOOLEAN, create_fail \in BOOLEAN :
          LET r == create_collection(kb.client, kb.collections, name, metadata,
                                     get_fail, create_fail)
          IN  kb' = [kb EXCEPT
                       !.collections = r.collections,
                       !.calls = Append(@, [name |-> name, metadata |-> metadata,
                                            store_failed |-> get_fail \/ create_fail,
                                            before |-> kb.collections,
                                            after |-> r.collections, ret |-> r.ret])]
    /\ UNCHANGED exceptKb

\* ingest_mitre_attack up to the first add_documents: load the data (which
\* may raise), create the collection, extract the techniques
IngestStart ==
    /\ kb.ingest = NoCall
    /\ \/ kb' = [kb EXCEPT !.ingest =
                    [IngestState(0) EXCEPT !.pc = "done", !.result = IngestError]]
       \/ \E n \in TechniqueCounts, get_fail \in BOOLEAN :
             LET r == create_collection(kb.client, kb.collections, "mitre_attack",
                                        MitreMetadata, get_fail, FALSE)
             IN  kb' = [kb EXCEPT !.collections = r.collections,
                                  !.ingest = IngestLoop(IngestState(n))]
    /\ UNCHANGED exceptKb

\* One batch: await self.vector_store.add_documents(...), count it, go on
IngestBatch ==
    /\ kb.ingest # NoCall
    /\ kb.ingest.pc = "batches"
    /\ \E add_fail \in BOOLEAN :
          LET g == kb.ingest
              len == BatchLen(g.n_techniques, g.i)
              r == add_documents(kb.client, kb.collections, "mitre_attack", len, add_fail)
          IN  kb' = [kb EXCEPT
                       !.collections = r.collections,
                       !.ingest = IngestLoop(
                          [g EXCEPT !.i = @ + batch_size,
                                    !.total_ingested = CountBatch(@, len, r.ret),
                                    !.added = IF r.ret THEN @ + len ELSE @,
                                    !.failed_batches = IF r.ret THEN @ ELSE @ + 1])]
    /\ UNCHANGED exceptKb

NextKb ==
    \/ CreateCollection
    \/ IngestStart
    \/ IngestBatch

SpecKb == InitKb /\ [][NextKb]_vars

----------------------------------------------------------------------------
(* The deployment verifier *)

InitVerifier ==
    /\ ml_enabled = TRUE
    /\ ServiceStarted
    /\ UnitsIdle
    /\ health = NoCall
    /\ rag = NoCall
    /\ webhook = NoCall
    /\ wazuh = NoCall
    /\ fetch = NoCall
    /\ kb = NoCall
    /\ verifier = NewVerifier

AtStep(name) ==
    /\ verifier # NoCall
    /\ verifier.pc = "steps"
    /\ Steps[verifier.step] = name

RunModelsDirectory ==
    /\ AtStep("Models Directory")
    /\ \E exists \in BOOLEAN, present \in SUBSET (1..Len(required_files)) :
          verifier' = AfterStep(EnterStep(verifier),
                                verify_models_directory(exists, present))
    /\ UNCHANGED exceptVerifier

\* One pass of the retry loop of verify_service_health; after the last
\* attempt the step fails with "Service did not become ready"
HealthAttempt ==
    /\ AtStep("Service Health")
    /\ \E outcome \in HealthAttemptOutcomes :
          LET v == IF verifier.attempt = 0 THEN EnterStep(verifier) ELSE verifier
          IN  verifier' =
                CASE outcome = "ok" ->
                       AfterStep(v, StepOutcome(<<TestResult("Health endpoint", "PASS")>>, TRUE))
                  [] outcome = "Exception" ->
                       AfterStep(v, StepOutcome(<<TestResult("Health endpoint", "FAIL")>>, FALSE))
                  [] OTHER ->
                       IF v.attempt + 1 < max_retries
                       THEN [v EXCEPT !.attempt = @ + 1]
                       ELSE AfterStep(v, StepOutcome(<<TestResult("Health endpoint", "FAIL")>>, FALSE))
    /\ UNCHANGED exceptVerifier

RunApiEndpoints ==
    /\ AtStep("API Endpoints")
    /\ \E passed \in SUBSET (1..Len(ApiTests)) :
          verifier' = AfterStep(EnterStep(verifier), verify_all(ApiTests, passed))
    /\ UNCHANGED exceptVerifier

RunErrorHandling ==
    /\ AtStep("Error Handling")
    /\ \E passed \in SUBSET (1..Len(ErrorTests)) :
          verifier' = AfterStep(EnterStep(verifier), verify_all(ErrorTests, passed))
    /\ UNCHANGED exceptVerifier

RunPerformance ==
    /\ AtStep("Performance")
    /\ \E outcome \in PerformanceOutcomes :
          verifier' = AfterStep(EnterStep(verifier), verify_performance(outcome))
    /\ UNCHANGED exceptVerifier

\* success = verifier.print_summary(); sys.exit(0 if success else 1)
SummaryAndExit ==
    /\ verifier # NoCall
    /\ verifier.pc = "summary"
    /\ verifier' = [verifier EXCEPT !.pc = "exited",
                                    !.exit_code = ExitCode(print_summary(verifier.test_results))]
    /\ UNCHANGED exceptVerifier

NextVerifier ==
    \/ RunModelsDirectory
    \/ HealthAttempt
    \/ RunApiEndpoints
    \/ RunErrorHandling
    \/ RunPerformance
    \/ SummaryAndExit

SpecVerifier == InitVerifier /\ [][NextVerifier]_vars

----------------------------------------------------------------------------
(* Properties *)

Answered == endpoint = "idle" /\ response # NoResponse

\* The coroutine ended by returning or by raising an ordinary Exception
Ordinary(t) == t.out.tag = "Return" \/ isinstance_Exception(t.out.exc)

\* predict_with_fallback has returned to analyze_alert
PastPredict(t) == t.pc \in {"primary", "fallback"} \/ (t.pc = "done" /\ t.llmCalls # <<>>)

Succeeded(entry) == entry.out.tag = "Return" /\ entry.out.v # PyNone

RECURSIVE Requests(_)
Requests(tried) ==
    IF tried = <<>> THEN <<>> ELSE Head(tried).sent \o Requests(Tail(tried))

\* C1: a batch whose analyses each end with a verdict, None or an ordinary
\* exception is answered 200, and every aggregate returned has total = number
\* of input alerts, successful + failed = total, len(results) = successful and
\* len(errors) = failed; an empty list gives all zeros and creates no analysis.
C1_BatchAggregate ==
    Answered =>
        /\ (\A i \in DOMAIN tasks : Ordinary(tasks[i])) => response.status = 200
        /\ response.status = 200 =>
              /\ response.body.total = Len(alerts)
              /\ response.body.successful + response.body.failed = response.body.total
              /\ Len(response.body.results) = response.body.successful
              /\ Len(response.body.errors) = response.body.failed
        /\ alerts = <<>> =>
              /\ tasks = <<>>
              /\ response = [status |-> 200,
                             body |-> [total |-> 0, successful |-> 0, failed |-> 0,
                                       results |-> <<>>, errors |-> <<>>]]

C1_Witness ==
    /\ Answered
    /\ Len(alerts) = 2
    /\ response.status = 200
    /\ response.body.successful = 1
    /\ response.body.failed = 1
    /\ \E i \in DOMAIN tasks : tasks[i].out = Return(PyNone)

\* C2: in an answered batch every alert whose own analysis returned a verdict
\* has that verdict in results, whatever the other analyses did.
C2_FailureIsolation ==
    Answered =>
        \A i \in DOMAIN tasks :
            Succeeded(tasks[i]) =>
                /\ response.status = 200
                /\ \E k \in DOMAIN response.body.results :
                      response.body.results[k] = tasks[i].out.v

\* C3: every batch request is answered with status 200 and the aggregate.
C3_BatchAlways200 ==
    Answered => response.status = 200 /\ "total" \in DOMAIN response.body

\* C4: /analyze answers 200 with the verdict when the gateway returned one,
\* 503 when it returned None, and 500 when the analysis raised.
C4_AnalyzeStatus ==
    Answered =>
        /\ Succeeded(tasks[1]) => response = [status |-> 200, body |-> tasks[1].out.v]
        /\ tasks[1].out = Return(PyNone) => response.status = 503
        /\ tasks[1].out.tag = "Raise" => response.status = 500

C4_Witness == Answered /\ tasks[1].out = Return(PyNone) /\ response.status = 503

\* C5: once predict_with_fallback has returned, the models were tried in the
\* order random_forest, xgboost, decision_tree, the value returned is the
\* first prediction that was not None, and it is None exactly when all three
\* models were tried and each yielded None.
C5_FirstSuccess ==
    \A i \in DOMAIN tasks :
        LET t == tasks[i]
            ok == {k \in DOMAIN t.mlTried : Succeeded(t.mlTried[k])}
        IN  PastPredict(t) =>
              /\ \A k \in DOMAIN t.mlTried : t.mlTried[k].model_name = models[k]
              /\ ok # {} =>
                    t.ml_prediction =
                        t.mlTried[CHOOSE k \in ok : \A j \in ok : k <= j].out.v
              /\ t.ml_prediction = PyNone <=>
                    (Len(t.mlTried) = Len(models) /\ ok = {})

C5_Witness ==
    \E i \in DOMAIN tasks :
        /\ PastPredict(tasks[i])
        /\ Len(tasks[i].mlTried) = 2
        /\ tasks[i].mlTried[1].out = Return(PyNone)
        /\ tasks[i].ml_prediction = MLPrediction("xgboost")

\* C6: the requests sent to POST /predict during one predict_with_fallback
\* are a prefix of the fixed order, one per model, and nothing is tried
\* after a model has succeeded.
C6_ShortCircuit ==
    \A i \in DOMAIN tasks :
        LET t == tasks[i]
            reqs == Requests(t.mlTried)
        IN  /\ Len(reqs) <= Len(models)
            /\ \A k \in DOMAIN reqs : reqs[k].model_name = models[k]
            /\ \A k \in DOMAIN t.mlTried :
                  Succeeded(t.mlTried[k]) => k = Len(t.mlTried)
            /\ (t.mlTried # <<>> /\ Succeeded(t.mlTried[Len(t.mlTried)])) => t.pc # "predict"

C6_Witness ==
    \E i \in DOMAIN tasks :
        /\ tasks[i].pc = "done"
        /\ Len(Requests(tasks[i].mlTried)) = 3
        /\ tasks[i].mlTried[1].out = Return(PyNone)
        /\ tasks[i].mlTried[2].out = Return(PyNone)
        /\ Succeeded(tasks[i].mlTried[3])

\* C7: with the gateway disabled, or for an alert that yields no features,
\* every predict_attack_type call returns None without sending a request,
\* and predict_with_fallback returns None.
C7_SkipWithoutRequest ==
    \A i \in DOMAIN tasks :
        (~ml_enabled \/ extract_network_features(alerts[i]) = PyNone) =>
            /\ \A k \in DOMAIN tasks[i].mlTried :
                  /\ tasks[i].mlTried[k].sent = <<>>
                  /\ tasks[i].mlTried[k].out = Return(PyNone)
            /\ PastPredict(tasks[i]) =>
                  tasks[i].ml_prediction = PyNone /\ Len(tasks[i].mlTried) = Len(models)

C7_Witness ==
    \E i \in DOMAIN tasks :
        /\ ml_enabled
        /\ extract_network_features(alerts[i]) = PyNone
        /\ tasks[i].pc = "done"
        /\ Len(tasks[i].mlTried) = 3
        /\ Requests(tasks[i].mlTried) = <<>>

\* Responses of POST /predict that are failures: timeout, transport failure,
\* a non-200 status, a 200 whose body is malformed or lacks a field
FailureResponses ==
    {r \in MlResponses :
        /\ r # HttpRaise("CancelledError")
        /\ r # HttpResponse(200, MlBody(TRUE, Range(MLPredictionFields), TRUE))}

\* C8: no predict_attack_type call ends by raising an Exception, and for
\* every failure response of the service it returns None.
C8_PredictNeverRaises ==
    \A i \in DOMAIN tasks :
        /\ \A k \in DOMAIN tasks[i].mlTried :
              tasks[i].mlTried[k].out.tag = "Raise" =>
                  ~isinstance_Exception(tasks[i].mlTried[k].out.exc)
        /\ \A m \in Range(models), r \in FailureResponses :
              predict_attack_type(ml_enabled, alerts[i], m, r).out = Return(PyNone)

C8_Witness ==
    \E i \in DOMAIN tasks :
        /\ tasks[i].mlTried # <<>>
        /\ tasks[i].mlTried[1].sent # <<>>
        /\ tasks[i].mlTried[1].out = Return(PyNone)

\* Answer texts holding the valid JSON object, bare or fenced
ValidTexts ==
    {PyStr(<<JsonTok(ValidAnswer)>>), PyStr(<<Fence, JsonTok(ValidAnswer), Fence>>)}

Unavailable(call) == call.out = Return(PyNone)

\* C9: when the primary call was unavailable and the fallback call answered
\* with a valid text, analyze returns a verdict naming the fallback model;
\* when the primary call answered with a valid text, the verdict names the
\* primary model; no verdict names any other model.
C9_ModelUsed ==
    \A i \in DOMAIN tasks :
        LET t == tasks[i]
            c == t.llmCalls
        IN  /\ (Len(c) = 2 /\ Unavailable(c[1]) /\ c[2].out.tag = "Return"
                /\ c[2].out.v \in ValidTexts) =>
                  /\ c[2].model = fallback_model
                  /\ Succeeded(t)
                  /\ t.out.v.model_used = fallback_model
            /\ (Len(c) = 1 /\ c[1].out.tag = "Return" /\ c[1].out.v \in ValidTexts) =>
                  /\ c[1].model = primary_model
                  /\ Succeeded(t)
                  /\ t.out.v.model_used = primary_model
            /\ (t.pc = "done" /\ Succeeded(t)) =>
                  /\ Succeeded(c[Len(c)])
                  /\ t.out.v.model_used = c[Len(c)].model

C9_Witness ==
    \E i \in DOMAIN tasks :
        /\ tasks[i].pc = "done"
        /\ Succeeded(tasks[i])
        /\ tasks[i].llmCalls[1].out = Return(PyNone)
        /\ tasks[i].out.v.model_used = fallback_model

\* C10: analyze calls the generative model at most twice: the primary model
\* first, the fallback model once, after and only after the primary call was
\* unavailable; when both are unavailable it returns None.
C10_AtMostTwoGenerations ==
    \A i \in DOMAIN tasks :
        LET t == tasks[i]
            c == t.llmCalls
        IN  /\ Len(c) <= 2
            /\ Len(c) >= 1 => c[1].model = primary_model
            /\ Len(c) = 2 => c[2].model = fallback_model /\ Unavailable(c[1])
            /\ (Len(c) = 1 /\ Unavailable(c[1])) => t.pc = "fallback"
            /\ (Len(c) = 1 /\ ~Unavailable(c[1])) => t.pc = "done"
            /\ (Len(c) = 2 /\ Unavailable(c[2])) => t.pc = "done" /\ t.out = Return(PyNone)
            /\ Len(c) = 2 => t.pc = "done"

C10_Witness ==
    \E i \in DOMAIN tasks :
        /\ Len(tasks[i].llmCalls) = 2
        /\ Unavailable(tasks[i].llmCalls[1])
        /\ Unavailable(tasks[i].llmCalls[2])
        /\ tasks[i].out = Return(PyNone)

\* The last generation call of the task answered with a text
AnsweredText(t) ==
    /\ t.llmCalls # <<>>
    /\ t.llmCalls[Len(t.llmCalls)].out.tag = "Return"
    /\ t.llmCalls[Len(t.llmCalls)].out.v # PyNone

LastText(t) == t.llmCalls[Len(t.llmCalls)].out.v

\* C11: when the generative model's answer is anything but the valid JSON
\* object (not JSON at all, a required field missing, a field of the wrong
\* type, a severity outside the enum), analyze returns None; and every
\* verdict analyze returns has severity and category from their enums, a
\* confidence and a recommendation list.
C11_MalformedAnswerGivesNone ==
    \A i \in DOMAIN tasks :
        LET t == tasks[i]
        IN  /\ (AnsweredText(t) /\ LastText(t) \notin ValidTexts) => t.out = Return(PyNone)
            /\ (t.pc = "done" /\ Succeeded(t)) =>
                  /\ {"severity", "category", "confidence", "recommendations"}
                        \subseteq DOMAIN t.out.v
                  /\ t.out.v.severity \in SeverityLevel
                  /\ t.out.v.category \in AlertCategory
                  /\ t.out.v.confidence \in Int
                  /\ DOMAIN t.out.v.recommendations = 1..Len(t.out.v.recommendations)

C11_Witness ==
    \E i \in DOMAIN tasks :
        /\ tasks[i].pc = "done"
        /\ AnsweredText(tasks[i])
        /\ LastText(tasks[i]) = PyStr(<<JsonTok(Without(ValidAnswer, "severity"))>>)
        /\ tasks[i].out = Return(PyNone)

Parsed == ret_parsed # NoCall

\* The answer text is one token between a leading and a trailing fence
Fenced(text) ==
    /\ Len(text.tokens) = 3
    /\ text.tokens[1] = Fence
    /\ text.tokens[3] = Fence

\* C12: parsing an answer wrapped in a leading and a trailing code fence
\* gives what parsing the text between the fences gives: the same verdict
\* when that text is the valid JSON object, None in both cases otherwise.
C12_FenceEquivalence ==
    (Parsed /\ Fenced(arg_llm_output)) =>
        /\ ret_parsed =
              parse_llm_response(arg_alert, PyStr(<<arg_llm_output.tokens[2]>>), arg_model)
        /\ arg_llm_output.tokens[2] = JsonTok(ValidAnswer) =>
              /\ ret_parsed # PyNone
              /\ ret_parsed.severity = "high"
              /\ ret_parsed.confidence = 88

C12_Witness ==
    /\ Parsed
    /\ arg_llm_output = PyStr(<<Fence, JsonTok(ValidAnswer), Fence>>)
    /\ ret_parsed # PyNone
    /\ ret_parsed.category = "intrusion_attempt"
    /\ ret_parsed.model_used = arg_model

\* predict_with_fallback returned None after trying every model
ClassifierNone(t) ==
    /\ Len(t.mlTried) = Len(models)
    /\ \A k \in DOMAIN t.mlTried : t.mlTried[k].out = Return(PyNone)

\* C13: when predict_with_fallback yields None the analysis goes on to the
\* generative model, and a valid answer still gives a verdict, with no
\* classifier label; when predict_with_fallback yields a prediction, the
\* verdict returned carries that prediction's label and confidence.
C13_ClassifierBestEffort ==
    \A i \in DOMAIN tasks :
        LET t == tasks[i]
            ok == {k \in DOMAIN t.mlTried : Succeeded(t.mlTried[k])}
        IN  /\ ClassifierNone(t) =>
                  /\ t.pc # "predict"
                  /\ t.pc = "done" => t.llmCalls # <<>>
                  /\ (AnsweredText(t) /\ LastText(t) \in ValidTexts) =>
                        /\ Succeeded(t)
                        /\ t.out.v.ml_prediction = "None"
                        /\ t.out.v.ml_confidence = <<>>
            /\ ok # {} =>
                  /\ t.pc # "predict"
                  /\ t.pc = "done" => t.llmCalls # <<>>
                  /\ (AnsweredText(t) /\ LastText(t) \in ValidTexts) => Succeeded(t)
                  /\ (t.pc = "done" /\ Succeeded(t)) =>
                        \A k \in ok :
                            /\ t.out.v.ml_prediction = t.mlTried[k].out.v.prediction
                            /\ t.out.v.ml_confidence = <<t.mlTried[k].out.v.confidence>>

C13_Witness ==
    \E i \in DOMAIN tasks :
        /\ ml_enabled
        /\ ClassifierNone(tasks[i])
        /\ Len(Requests(tasks[i].mlTried)) = 3
        /\ tasks[i].pc = "done"
        /\ Succeeded(tasks[i])
        /\ tasks[i].out.v.ml_prediction = "None"

\* An optional string field of the alert holds a value
Present(field) == field # "None"

\* full_log is a mapping whose network_flow is a non-empty mapping
HasFlowPayload(a) ==
    /\ a.full_log.kind = "dict"
    /\ "network_flow" \in DOMAIN a.full_log.d
    /\ a.full_log.d["network_flow"].kind = "dict"
    /\ DOMAIN a.full_log.d["network_flow"].d # {}

\* full_log is absent, a string, or a mapping whose network_flow is missing
\* or empty
NoFlowData(a) ==
    \/ a.full_log.kind \in {"None", "str"}
    \/ /\ a.full_log.kind = "dict"
       /\ \/ "network_flow" \notin DOMAIN a.full_log.d
          \/ a.full_log.d["network_flow"] = DictVal(EmptyDict)

Extracted == ret_features # NoCall

\* The call returned a list of 77 values
IsVector(out) == out.tag = "Return" /\ out.v # PyNone /\ Len(out.v.items) = 77

\* C14: for an alert whose full_log carries a non-empty network_flow mapping,
\* feature extraction returns exactly 77 values: the flow fields it reads, in
\* their fixed order, a field the payload lacks and every later slot being
\* zero; calling it again on the same alert gives the same list.
C14_FlowVector ==
    (Extracted /\ HasFlowPayload(arg_alert)) =>
        /\ IsVector(ret_features)
        /\ \A i \in 1..77 :
              ret_features.v.items[i] =
                  IF i <= Len(FlowFields)
                     /\ FlowFields[i] \in DOMAIN arg_alert.full_log.d["network_flow"].d
                  THEN arg_alert.full_log.d["network_flow"].d[FlowFields[i]]
                  ELSE Float(0)
        /\ extract_outcome(arg_alert) = ret_features

C14_Witness ==
    /\ Extracted
    /\ arg_alert.full_log = FullLogDict([k \in {"network_flow"} |-> DictVal(FlowSample)])
    /\ IsVector(ret_features)
    /\ ret_features.v.items[1] = Float(120)
    /\ ret_features.v.items[3] = Float(0)
    /\ ret_features.v.items[77] = Float(0)

\* The severity is a required field of an alert: every alert has one, the
\* value 0 included
SeverityPresent(a) == a.rule_level \in 0..MaxRuleLevel

HasMetadata(a) ==
    \/ Present(a.source_ip) \/ Present(a.dest_ip)
    \/ Present(a.user) \/ Present(a.process)
    \/ SeverityPresent(a)

Flag(present) == IF present THEN Float(1) ELSE Float(0)

\* C15: for an alert without flow data that has a source or destination
\* address, a user, a process or a severity (0 included), feature extraction
\* returns 77 values whose slots 4, 5, 6, 7 are 1 or 0 as source address,
\* destination address, user, process are present or absent.
C15_SyntheticFlags ==
    (Extracted /\ NoFlowData(arg_alert) /\ HasMetadata(arg_alert)) =>
        /\ IsVector(ret_features)
        /\ ret_features.v.items[5] = Flag(Present(arg_alert.source_ip))
        /\ ret_features.v.items[6] = Flag(Present(arg_alert.dest_ip))
        /\ ret_features.v.items[7] = Flag(Present(arg_alert.user))
        /\ ret_features.v.items[8] = Flag(Present(arg_alert.process))

\* Nothing usable: no address, no user, no process, severity 0
NoMetadata(a) ==
    /\ ~Present(a.source_ip) /\ ~Present(a.dest_ip)
    /\ ~Present(a.user) /\ ~Present(a.process)
    /\ a.rule_level = 0

PortOrZero(port) == IF port = <<>> THEN Float(0) ELSE Float(port[1])

\* C17: in a vector synthesized for an alert without flow payload, slot 0 is
\* the severity, slot 1 equals severity / 15 and lies in [0, 1], slots 2 and
\* 3 are the source and destination port when known and 0 otherwise, and
\* slots 8 to 76 are zero.
C17_SyntheticNumerics ==
    (Extracted /\ ~HasFlowPayload(arg_alert) /\ IsVector(ret_features)) =>
        LET f == ret_features.v.items
        IN  /\ f[1] = Float(arg_alert.rule_level)
            /\ f[2].num * 15 = arg_alert.rule_level * f[2].den
            /\ 0 <= f[2].num /\ f[2].num <= f[2].den
            /\ f[3] = PortOrZero(arg_alert.source_port)
            /\ f[4] = PortOrZero(arg_alert.dest_port)
            /\ \A i \in 9..77 : f[i] = Float(0)

C17_Witness ==
    /\ Extracted
    /\ ~HasFlowPayload(arg_alert)
    /\ arg_alert.rule_level = 15
    /\ arg_alert.source_port = <<443>>
    /\ arg_alert.dest_port = <<22>>
    /\ IsVector(ret_features)
    /\ ret_features.v.items[2] = [num |-> 15, den |-> 15]
    /\ ret_features.v.items[3] = Float(443)

\* C18: for every alert, whatever optional fields are present and whatever
\* the shape of full_log, feature extraction returns None or a list of
\* exactly 77 values and does not raise.
C18_ExtractTotal ==
    Extracted =>
        /\ ret_features.tag = "Return"
        /\ ret_features.v = PyNone \/ Len(ret_features.v.items) = 77

C18_Witness ==
    /\ Extracted
    /\ arg_alert.full_log = FullLogDict([k \in {"network_flow"} |-> StrVal])
    /\ Present(arg_alert.source_ip)
    /\ ret_features = Return(PyNone)

\* C19: every request the classifier client sends to POST /predict carries
\* as many features as the classifier service requires, so the service does
\* not answer it with a 4xx for the feature count.
C19_FeatureCountAccepted ==
    \A i \in DOMAIN tasks :
        LET reqs == Requests(tasks[i].mlTried)
        IN  \A k \in DOMAIN reqs :
                /\ reqs[k].n_features = feature_names_count
                /\ predict_feature_check(reqs[k].n_features) \notin 400..499

ProbabilitiesOmitted ==
    HttpResponse(200, MlBody(TRUE, Range(MLPredictionFields) \ {"probabilities"}, TRUE))

ConfidenceOmitted ==
    HttpResponse(200, MlBody(TRUE, Range(MLPredictionFields) \ {"confidence"}, TRUE))

\* C20: for an alert with features and the gateway enabled, a 200 response
\* holding prediction and confidence but no probabilities makes
\* predict_attack_type return a prediction, and a 200 response without
\* confidence makes it return None.
C20_ProbabilitiesOptional ==
    \A i \in DOMAIN tasks :
        (ml_enabled /\ extract_network_features(alerts[i]) # PyNone) =>
            \A m \in Range(models) :
                /\ predict_attack_type(ml_enabled, alerts[i], m, ProbabilitiesOmitted).out
                      = Return(MLPrediction(m))
                /\ predict_attack_type(ml_enabled, alerts[i], m, ConfidenceOmitted).out
                      = Return(PyNone)

\* The liveness endpoint answered with status 200
Answered200(resp) == resp # NoCall /\ resp.kind = "response" /\ resp.status_code = 200

\* The liveness call ended in a status other than 200 or in a failure that
\* is an Exception (timeout, connection failure, anything else)
FailedCheck(resp) ==
    /\ resp # NoCall
    /\ \/ resp.kind = "response" /\ resp.status_code # 200
       \/ resp.kind = "raise" /\ resp.exc.cls \in ExceptionClasses

\* C21: a call of the classifier health check never ends by raising an
\* Exception; with the gateway disabled it returns False without contacting
\* the service; otherwise it returns True when the liveness endpoint answers
\* 200 and False for any other status, a timeout or a connection failure.
C21_CheckHealthBoolean ==
    health.ml_called =>
        /\ health.ml_out.tag = "Raise" => ~isinstance_Exception(health.ml_out.exc)
        /\ ~ml_enabled => ~health.ml_contacted /\ health.ml_out = Return(FALSE)
        /\ ml_enabled => health.ml_contacted
        /\ Answered200(health.ml_resp) => health.ml_out = Return(TRUE)
        /\ FailedCheck(health.ml_resp) => health.ml_out = Return(FALSE)
        /\ health.ml_out.tag = "Return" => health.ml_out.v \in BOOLEAN

C21_Witness ==
    /\ health.pc = "called"
    /\ health.ml_called
    /\ health.ml_contacted
    /\ health.ml_resp = HttpRaise("TimeoutException")
    /\ health.ml_out = Return(FALSE)

\* C28: an answered GET /health reports 'degraded' exactly when the
\* generative-model service did not answer its liveness call with 200,
\* whatever the classifier did; 'partial' exactly when it did, the classifier
\* is enabled and the classifier's liveness call did not answer 200; and
\* 'healthy' otherwise.
C28_HealthStatus ==
    (health # NoCall /\ health.pc = "done" /\ health.response.status = 200) =>
        LET llm_ok == Answered200(health.ollama_resp)
            ml_ok == Answered200(health.ml_resp)
            status == health.response.body.status
        IN  /\ status \in {"healthy", "degraded", "partial"}
            /\ status = "degraded" <=> ~llm_ok
            /\ status = "partial" <=> (llm_ok /\ ml_enabled /\ ~ml_ok)
            /\ status = "healthy" <=> (llm_ok /\ (~ml_enabled \/ ml_ok))
            /\ health.response.body.ollama_connected = llm_ok
            /\ health.response.body.ml_api_connected = (ml_enabled /\ ml_ok)

C28_Witness ==
    /\ health # NoCall
    /\ health.pc = "done"
    /\ ml_enabled
    /\ Answered200(health.ollama_resp)
    /\ health.ml_resp = HttpRaise("ConnectError")
    /\ health.response.status = 200
    /\ health.response.body.status = "partial"

\* The call of VectorStore.query has returned a list
Queried == rag # NoCall /\ rag.pc = "done" /\ rag.out.tag = "Return"

\* 1 - distance/2 >= minSimilarity, for the hit and the call's threshold
AtOrAbove(hit) ==
    (2 * hit.distance.den - hit.distance.num) * rag.min_similarity.den
        >= rag.min_similarity.num * 2 * hit.distance.den

Documents(items) == [i \in DOMAIN items |-> items[i].document]

\* C22: a query returns exactly the store's hits whose similarity
\* 1 - distance/2 is at least minSimilarity; with minSimilarity 0.9 and a best
\* match of similarity 0.5 the result is empty; with minSimilarity 0.0 the
\* result is not empty whenever the store returned a hit.
C22_ThresholdFilter ==
    (Queried /\ rag.store_queried) =>
        /\ Documents(rag.out.v) = Documents(SelectSeq(rag.store_hits, AtOrAbove))
        /\ (rag.min_similarity = Frac(9, 10) /\ rag.store_hits # <<>>
            /\ rag.store_hits[1].distance = Frac(1, 1)) => rag.out.v = <<>>
        /\ (rag.min_similarity = Frac(0, 1) /\ rag.store_hits # <<>>) => rag.out.v # <<>>

\* C23: the list a query returns is in non-increasing similarity, is the
\* store's ascending-distance result with the hits below the threshold left
\* out and the order of the others kept, and has at most top_k entries.
C23_OrderPreserved ==
    Queried =>
        LET res == rag.out.v
        IN  /\ \A i \in DOMAIN res : \A j \in DOMAIN res :
                  i < j => FracGeq(res[i].similarity_score, res[j].similarity_score)
            /\ Documents(res) = Documents(SelectSeq(rag.store_hits, AtOrAbove))
            /\ \A i \in DOMAIN rag.store_hits : \A j \in DOMAIN rag.store_hits :
                  i < j => FracGeq(rag.store_hits[j].distance, rag.store_hits[i].distance)
            /\ Len(res) <= rag.top_k

C23_Witness ==
    /\ Queried
    /\ rag.top_k = 3
    /\ rag.min_similarity = Frac(1, 2)
    /\ Documents(rag.store_hits) = <<"d1", "d2", "d4">>
    /\ Documents(rag.out.v) = <<"d1", "d2">>

\* C24: every result a query returns has a similarity score between 0 and
\* 1, for every distance the store reports (distances above 2 included) and
\* every threshold in [0, 1].
C24_SimilarityInUnitInterval ==
    Queried =>
        \A i \in DOMAIN rag.out.v :
            LET sim == rag.out.v[i].similarity_score
            IN  /\ sim.den > 0
                /\ 0 <= sim.num
                /\ sim.num <= sim.den

C24_Witness ==
    /\ Queried
    /\ rag.min_similarity = Frac(0, 1)
    /\ Documents(rag.store_hits) = <<"d1", "d4", "d5">>
    /\ Documents(rag.out.v) = <<"d1", "d4">>
    /\ rag.out.v[1].similarity_score = Frac(18, 20)
    /\ rag.out.v[2].similarity_score = Frac(0, 2)

\* C25: a query over an empty collection, a query none of whose hits reaches
\* the threshold, a query with the store client not initialised, and a query
\* during which the collection lookup, the embedding or the store raises,
\* all return the empty list; no query raises.
C25_EmptyNotError ==
    (rag # NoCall /\ rag.pc = "done") =>
        /\ rag.out.tag = "Return"
        /\ (~rag.client \/ ~rag.collection.exists \/ rag.fail # "none") =>
              rag.out = Return(<<>>) /\ ~rag.store_queried
        /\ (rag.collection.exists /\ rag.collection.docs = <<>>) => rag.out = Return(<<>>)
        /\ (\A i \in DOMAIN rag.store_hits : ~AtOrAbove(rag.store_hits[i])) =>
              rag.out = Return(<<>>)

C25_Witness ==
    /\ rag # NoCall
    /\ rag.pc = "done"
    /\ rag.client
    /\ rag.collection.exists
    /\ rag.fail = "query"
    /\ rag.out = Return(<<>>)

\* A single-alert analysis ended with an exception that is no HTTPException
InternalFault ==
    /\ endpoint = "idle"
    /\ completed > 0
    /\ tasks # <<>>
    /\ tasks[1].pc = "done"
    /\ tasks[1].out.tag = "Raise"
    /\ isinstance_Exception(tasks[1].out.exc)
    /\ tasks[1].out.exc.cls # "HTTPException"

\* Another internal fault, to compare response bodies with
OtherFault == Exc("KeyError", "'severity'")

\* C26: the 500 response to a single-alert analysis that hit an internal
\* fault is the same for every internal fault and does not carry the text
\* of the raised exception.
C26_GenericInternalError ==
    (InternalFault /\ response.status = 500) =>
        /\ response.body = HttpRespond(analyze_alert(Raise(OtherFault)).out).body
        /\ response.body.detail # str(tasks[1].out.exc)

\* The outcome an analysis has by its own alert and its own calls alone
OwnOutcome(alert, t) ==
    IF t.llmCalls = <<>> THEN t.mlTried[Len(t.mlTried)].out
    ELSE LET last == t.llmCalls[Len(t.llmCalls)]
         IN  IF last.out.tag = "Raise" THEN last.out
             ELSE IF last.out.v = PyNone THEN Return(PyNone)
             ELSE Return(AttachMl(parse_llm_response(alert, last.out.v, last.model),
                                  t.ml_prediction))

\* C27: alert analyses leave the process-wide state (the request counters)
\* as it was at startup, and the outcome of each analysis is determined by
\* its own alert and the answers to its own calls, whatever the interleaving.
C27_NoSharedMutableState ==
    /\ REQUEST_COUNT = [l \in Labels |-> 0]
    /\ \A i \in DOMAIN tasks :
          tasks[i].pc = "done" => tasks[i].out = OwnOutcome(alerts[i], tasks[i])

\* The webhook request has been answered
WebhookDone == webhook # NoCall /\ webhook.pc = "done"

\* The RAG service was called and failed: no answer, an answer outside
\* 2xx, or a body that is no JSON
RagFailed ==
    /\ WebhookDone
    /\ webhook.rag_resp # NoCall
    /\ \/ webhook.rag_resp.kind = "raise"
       \/ webhook.rag_resp.status_code \notin 200..299
       \/ ~webhook.rag_resp.body.json

\* The triage service answered with a complete TriageResponse
TriageComplete ==
    /\ webhook.triage_result # NoCall
    /\ \A i \in DOMAIN EnrichedTriageKeys :
          EnrichedTriageKeys[i] \in DOMAIN webhook.triage_result

\* C29: whenever the RAG service fails (timeout, connection error, status
\* outside 2xx, undecodable body), enrich_with_rag returns None and the
\* webhook answers 200 with the triage-based EnrichedAlert and
\* rag_enrichment_applied = false.
C29_RagOptional ==
    (RagFailed /\ TriageComplete) =>
        /\ webhook.rag_out = Return(PyNone)
        /\ webhook.response.status = 200
        /\ webhook.response.body.ai_severity = webhook.triage_result.severity
        /\ webhook.response.body.rag_enrichment_applied = FALSE

\* C30: an alert whose rule level is below min_severity is answered 400, and
\* neither the triage service nor the RAG service is called for it.
C30_LowSeverityRejected ==
    (webhook # NoCall /\ webhook.alert # NoCall
     /\ webhook.alert.rule.level < min_severity) =>
        /\ webhook.pc = "done"
        /\ webhook.response.status = 400
        /\ webhook.calls = <<>>

C30_Witness ==
    /\ WebhookDone
    /\ webhook.alert.rule.level = 6
    /\ webhook.response.status = 400
    /\ webhook.calls = <<>>

\* The services the webhook handler called, in call order
Called == [i \in DOMAIN webhook.calls |-> webhook.calls[i].service]

\* C31: the webhook queries the RAG service exactly when the alert passed
\* the severity filter, the triage call returned and the rule level is at
\* least rag_severity_threshold; the RAG query comes after the triage call;
\* a failed triage call ends the request with 500 and no RAG query.
C31_RagQueriedIff ==
    (webhook # NoCall /\ webhook.alert # NoCall) =>
        /\ Called \in {<<>>, <<"triage">>, <<"triage", "rag">>}
        /\ WebhookDone =>
              ((\E i \in DOMAIN Called : Called[i] = "rag")
               <=> /\ webhook.alert.rule.level >= min_severity
                   /\ webhook.triage_result # NoCall
                   /\ webhook.alert.rule.level >= rag_severity_threshold)
        /\ (WebhookDone /\ webhook.triage_resp # NoCall /\ webhook.triage_result = NoCall) =>
              /\ webhook.response.status = 500
              /\ Called = <<"triage">>

C31_Witness ==
    /\ WebhookDone
    /\ webhook.alert.rule.level = 8
    /\ Called = <<"triage", "rag">>
    /\ webhook.response.status = 200

\* C37: in a webhook response, rag_enrichment_applied is true only if
\* mitre_context or kb_references is set.
C37_EnrichmentAttached ==
    (WebhookDone /\ webhook.response.status = 200
     /\ webhook.response.body.rag_enrichment_applied) =>
        \/ webhook.response.body.mitre_context # PyNone
        \/ webhook.response.body.kb_references # PyNone

\* Positions of the batch's analyses, in input order
Positions == [i \in DOMAIN tasks |-> i]
VerdictAt(i) == Succeeded(tasks[i])
FailureAt(i) == ~Succeeded(tasks[i])

\* C32: in the aggregate of a batch, errors holds one entry per failed
\* analysis, in input order, each with the identifier of the alert at that
\* input position; results holds the verdicts of the others, in input order,
\* each the verdict of its own alert.
C32_FailureAttribution ==
    (Answered /\ response.status = 200) =>
        LET failedAt == SelectSeq(Positions, FailureAt)
            verdictAt == SelectSeq(Positions, VerdictAt)
        IN  /\ [k \in DOMAIN response.body.errors |-> response.body.errors[k].alert_id]
                  = [k \in DOMAIN failedAt |-> alerts[failedAt[k]].alert_id]
            /\ response.body.results
                  = [k \in DOMAIN verdictAt |-> tasks[verdictAt[k]].out.v]
            /\ \A k \in DOMAIN verdictAt :
                  response.body.results[k].alert_id = alerts[verdictAt[k]].alert_id

C32_Witness ==
    /\ Answered
    /\ response.status = 200
    /\ Len(alerts) = 2
    /\ alerts[1].alert_id = "a1"
    /\ alerts[2].alert_id = "a2"
    /\ Succeeded(tasks[1])
    /\ tasks[2].out.tag = "Raise"
    /\ response.body.errors = <<[alert_id |-> "a2", error |-> str(tasks[2].out.exc)]>>

\* The label a response status is counted under
LabelOf(status_code) ==
    CASE status_code = 200 -> "success"
      [] status_code = 503 -> "failed"
      [] OTHER -> "error"

CounterSum ==
    REQUEST_COUNT["success"] + REQUEST_COUNT["failed"] + REQUEST_COUNT["error"]

\* A single-alert request whose analysis returned or raised an Exception is
\* answered in this step
AnalyzeCompletes ==
    /\ endpoint = "analyze"
    /\ endpoint' = "idle"
    /\ Ordinary(tasks[1])

C34_TokenCached ==
    wazuh # NoCall =>
        \A i \in DOMAIN wazuh.callers :
            LET c == wazuh.callers[i]
                fresh == /\ c.seen_token # PyNone
                         /\ c.at < c.seen_at + token_lifetime
            IN  /\ c.posted => ~fresh
                /\ c.posted => (c.seen_token = PyNone \/ c.at >= c.seen_expiry.minute)
                /\ fresh => /\ ~c.posted
                            /\ c.request = 0
                            /\ c.out = Return(c.seen_token)
                /\ wazuh.requests = Cardinality({j \in DOMAIN wazuh.callers :
                                                   wazuh.callers[j].posted})

C34_Witness ==
    /\ wazuh # NoCall
    /\ Len(wazuh.callers) = 3
    /\ wazuh.callers[1].posted /\ wazuh.callers[1].seen_token = PyNone
    /\ ~wazuh.callers[2].posted /\ wazuh.callers[2].out = Return(Token(1))
    /\ wazuh.callers[2].at = 7
    /\ wazuh.callers[3].posted /\ wazuh.callers[3].seen_token = Token(1)
    /\ wazuh.callers[3].at = 14

\* Authentication requests sent and not yet answered
InFlight == {i \in DOMAIN wazuh.callers : wazuh.callers[i].pc = "posting"}

\* C35: with several coroutines using one WazuhClient, at most one
\* authentication request is in flight at any time.
C35_SingleAuthInFlight ==
    wazuh # NoCall => Cardinality(InFlight) <= 1

FetchDone == fetch # NoCall /\ fetch.pc = "done"

\* The Wazuh fetch itself failed
FetchFailed ==
    \/ fetch.fetch_resp.kind = "raise"
    \/ fetch.fetch_resp.status_code \notin 200..299
    \/ ~fetch.fetch_resp.body.json

\* Positions of the fetched alerts that were processed without error
ProcessedAt(i) == fetch.log[i].step = "done"

\* C36: GET /alerts takes the fetched alerts one at a time in fetch order;
\* an alert whose parsing, triage call or RAG step raises is skipped and the
\* others are processed all the same; total_analyzed is the number of alerts
\* processed without error and at most total_fetched; the request is
\* answered 500 exactly when the Wazuh fetch failed.
C36_SkipFailedAlerts ==
    FetchDone =>
        /\ FetchFailed <=> fetch.response.status = 500
        /\ ~FetchFailed =>
              LET body == fetch.response.body
                  okAt == SelectSeq([i \in DOMAIN fetch.raw_alerts |-> i], ProcessedAt)
              IN  /\ fetch.response.status = 200
                  /\ Len(fetch.log) = Len(fetch.raw_alerts)
                  /\ \A i \in DOMAIN fetch.raw_alerts :
                        ProcessedAt(i) <=>
                          /\ ParseWazuhAlert(fetch.raw_alerts[i]).tag = "Return"
                          /\ fetch.log[i].step \notin {"triage", "rag"}
                  /\ body.total_fetched = Len(fetch.raw_alerts)
                  /\ body.total_analyzed = Len(okAt)
                  /\ body.total_analyzed <= body.total_fetched
                  /\ [k \in DOMAIN body.alerts |-> body.alerts[k].wazuh_alert_id]
                        = [k \in DOMAIN okAt |-> fetch.raw_alerts[okAt[k]].id]

C36_Witness ==
    /\ FetchDone
    /\ Len(fetch.raw_alerts) = 2
    /\ fetch.log[1].step = "rag"
    /\ fetch.log[1].error.cls = "JSONDecodeError"
    /\ fetch.log[2].step = "done"
    /\ fetch.response.status = 200
    /\ fetch.response.body.total_analyzed = 1
    /\ fetch.response.body.alerts[1].wazuh_alert_id = "w1"

\* C38: with the store answering, create_collection for a name the store
\* has returns True and leaves the store as it was; for a name it lacks it
\* adds an empty collection of that name and returns True; no name ever has
\* two collections, and after a call that returned True it has exactly one.
C38_CreateIdempotent ==
    kb # NoCall =>
        /\ \A name \in CollectionNames : Cardinality(Named(kb.collections, name)) <= 1
        /\ \A k \in DOMAIN kb.calls :
              LET call == kb.calls[k]
                  existed == Named(call.before, call.name) # {}
              IN  /\ (kb.client /\ ~call.store_failed /\ existed) =>
                        call.ret /\ call.after = call.before
                  /\ (kb.client /\ ~call.store_failed /\ ~existed) =>
                        /\ call.ret
                        /\ call.after = call.before
                               \cup {StoredCollection(call.name, call.metadata, 0)}
                  /\ call.ret => Cardinality(Named(call.after, call.name)) = 1

C38_Witness ==
    /\ kb # NoCall
    /\ Len(kb.calls) = 3
    /\ \A k \in 1..3 : kb.calls[k].name = "mitre_attack" /\ kb.calls[k].ret
    /\ kb.calls[1].before = {}
    /\ kb.calls[1].metadata = NoMetadataGiven
    /\ kb.calls[2].metadata = MitreMetadata
    /\ kb.calls[3].after = {StoredCollection("mitre_attack", NoMetadataGiven, 0)}

\* C39: an ingestion that reports status 'success' with
\* techniques_ingested = n has added exactly n techniques to mitre_attack.
C39_IngestedCount ==
    (kb # NoCall /\ kb.ingest # NoCall /\ kb.ingest.pc = "done"
     /\ kb.ingest.result.status = "success") =>
        kb.ingest.result.techniques_ingested = kb.ingest.added

HasFail(test_results) ==
    \E k \in 1..Len(test_results) : test_results[k].status = "FAIL"

\* C40: the steps entered are an initial part of the list models directory,
\* service health, API endpoints, error handling, performance, in that
\* order; a step that returned False is the last one entered; and the exit
\* status is 0 exactly when no recorded test has status FAIL.
C40_StopAtFirstFailure ==
    verifier # NoCall =>
        /\ Len(verifier.ran) <= Len(Steps)
        /\ verifier.ran = SubSeq(Steps, 1, Len(verifier.ran))
        /\ \A k \in 1..Len(verifier.returned) :
              ~verifier.returned[k] => Len(verifier.ran) = k
        /\ verifier.pc = "exited" =>
              /\ Len(verifier.returned) = Len(verifier.ran)
              /\ (Len(verifier.ran) < Len(Steps)) =>
                     ~verifier.returned[Len(verifier.returned)]
              /\ (verifier.exit_code = 0 <=> ~HasFail(verifier.test_results))

C40_Witness ==
    /\ verifier # NoCall
    /\ verifier.pc = "exited"
    /\ verifier.ran = <<"Models Directory", "Service Health", "API Endpoints">>
    /\ verifier.returned = <<TRUE, TRUE, FALSE>>
    /\ verifier.exit_code = 1
    /\ verifier.test_results[Len(verifier.test_results)].status = "PASS"

====
